---------------------------- MODULE Spec2Model ----------------------------
(***************************************************************************)
(* Multi-channel forensic system: the attribute-conflict rule engine       *)
(* (channel_3_logic_rules/reasoner.py), the Ch3 score provider             *)
(* (channel_3_logic_rules/interface.py), the live fusion loop              *)
(* (run_system.py) and the simulated fusion report                         *)
(* (dataset/final_report_genertion.py).                                    *)
(*                                                                         *)
(* Python str values are TLA+ strings.  A character outside ASCII is       *)
(* written {xxxx}, its code point in hexadecimal: braces occur in no       *)
(* keyword and in no input, so substring containment of the encoded        *)
(* strings is substring containment of the originals, and lower() leaves   *)
(* an encoded character alone as Python does.                              *)
(* Python floats in [0,1] are integers in units of 1/10000.                *)
(***************************************************************************)
EXTENDS Integers, Sequences, FiniteSets, TLC

VARIABLES
    program,        \* the script that is being run
    rs_call,        \* reasoner.py: arguments of the check_logic calls made
    rs_return,      \* reasoner.py: what each of them returned
    ch1_detector,   \* run_system.py: module globals set by the imports
    get_ch2_score,
    get_logic_score,
    model,          \* interface.py: module globals
    tokenizer,
    pc,             \* run_system.py: position of run_full_inference
    idx,            \* run_system.py: rows of df consumed by the loop
    results,        \* run_system.py: the list of report records
    locals,         \* locals of the last loop iteration, or of the last call
    sim_results,    \* final_report_genertion.py: the list of report records
    reasoner,       \* reasoner.py: attributes of the module-level LogicReasoner
    workers         \* callers of a shared module: each one's position and frame

vars == <<program, rs_call, rs_return, ch1_detector, get_ch2_score,
          get_logic_score, model, tokenizer, pc, idx, results, locals,
          sim_results, reasoner, workers>>

None == "<None>"

-----------------------------------------------------------------------------
(* Python str operations *)

\* k in t, with k required to stand as a whole word of t, between spaces
Contains_WholeWord(t, k) ==
    \E i \in 1..(Len(t) - Len(k) + 1) :
        /\ SubSeq(t, i, i + Len(k) - 1) = k
        /\ i = 1 \/ SubSeq(t, i - 1, i - 1) = " "
        /\ i + Len(k) - 1 = Len(t) \/ SubSeq(t, i + Len(k), i + Len(k)) = " "

\* k in t
Contains(t, k) ==
    \E i \in 1..(Len(t) - Len(k) + 1) : SubSeq(t, i, i + Len(k) - 1) = k

\* t.startswith(k)
StartsWith(t, k) == Len(k) <= Len(t) /\ SubSeq(t, 1, Len(k)) = k

UpperCase == <<"A", "B", "C", "D", "E", "F", "G", "H", "I", "J", "K", "L", "M",
               "N", "O", "P", "Q", "R", "S", "T", "U", "V", "W", "X", "Y", "Z">>
LowerCase == <<"a", "b", "c", "d", "e", "f", "g", "h", "i", "j", "k", "l", "m",
               "n", "o", "p", "q", "r", "s", "t", "u", "v", "w", "x", "y", "z">>

LowerOf ==
    [c \in {UpperCase[i] : i \in 1..26} |->
        LowerCase[CHOOSE i \in 1..26 : UpperCase[i] = c]]

LowerChar(c) == IF c \in DOMAIN LowerOf THEN LowerOf[c] ELSE c

\* s.lower()
RECURSIVE lower(_)
lower(s) ==
    IF s = "" THEN ""
    ELSE LowerChar(SubSeq(s, 1, 1)) \o lower(SubSeq(s, 2, Len(s)))

Whitespace == {" ", "\t", "\n"}

\* s.strip()
RECURSIVE strip(_)
strip(s) ==
    IF s = "" THEN ""
    ELSE IF SubSeq(s, 1, 1) \in Whitespace THEN strip(SubSeq(s, 2, Len(s)))
    ELSE IF SubSeq(s, Len(s), Len(s)) \in Whitespace
         THEN strip(SubSeq(s, 1, Len(s) - 1))
    ELSE s

\* str(v): every value the model passes is a str, which str() returns as is
str(v) == v

\* os.path.basename(p): what follows the last "/"
RECURSIVE basename(_)
basename(p) ==
    IF Contains(p, "/")
    THEN basename(SubSeq(p, 1 + (CHOOSE i \in 1..Len(p) : SubSeq(p, i, i) = "/"
                                    /\ \A j \in 1..(i - 1) : SubSeq(p, j, j) # "/"),
                         Len(p)))
    ELSE p

\* d.get(k, default)
Get(d, k, default) == IF k \in DOMAIN d THEN d[k] ELSE default

\* next((kw for kw in kws if kw in t), None)
FirstHit(kws, t) ==
    LET hit == [i \in 1..Len(kws) |-> Contains(t, kws[i])]
    IN  IF \E i \in 1..Len(kws) : hit[i]
        THEN kws[CHOOSE i \in 1..Len(kws) : hit[i] /\ \A j \in 1..(i - 1) : ~hit[j]]
        ELSE None

\* next((kw for kw in kws if kw.lower() in t), None)
FirstHitLower(kws, t) ==
    LET hit == [i \in 1..Len(kws) |-> Contains(t, lower(kws[i]))]
    IN  IF \E i \in 1..Len(kws) : hit[i]
        THEN kws[CHOOSE i \in 1..Len(kws) : hit[i] /\ \A j \in 1..(i - 1) : ~hit[j]]
        ELSE None

\* any(kw in a or kw in b for kw in kws)
AnyIn(kws, a, b) == \E i \in 1..Len(kws) : Contains(a, kws[i]) \/ Contains(b, kws[i])

-----------------------------------------------------------------------------
(* LogicReasoner.__init__: the keyword lists and rule tables *)

night_keywords ==
    <<"{6df1}{591c}", "{51cc}{6668}", "{6f06}{9ed1}", "{665a}{95f4}",
      "{901a}{5bb5}", "{6708}{8272}", "{6708}{5149}", "{591c}{5e55}",
      "{591c}{665a}", "{661f}{7a7a}",
      "midnight", "night", "evening", "dark", "moon", "moonlight">>
day_keywords ==
    <<"{9633}{5149}", "{6b63}{5348}", "{767d}{5929}", "{70c8}{65e5}",
      "{4e0a}{5348}", "{4e0b}{5348}", "{4e2d}{5348}", "{6e05}{6668}",
      "{671d}{9633}",
      "noon", "daylight", "morning", "daytime", "sunny", "afternoon">>
storm_keywords ==
    <<"{66b4}{96e8}", "{6d2a}{6c34}", "{53f0}{98ce}", "{79ef}{6c34}",
      "{96f7}{7535}", "{72c2}{98ce}", "{66b4}{98ce}", "{5927}{96e8}",
      "{503e}{76c6}{5927}{96e8}", "{98ce}{66b4}",
      "storm", "rain", "flood", "typhoon", "hurricane", "heavy rain",
      "rainstorm">>
snow_keywords ==
    <<"{5927}{96ea}", "{66b4}{96ea}", "{5bd2}{51ac}", "{51b0}{96ea}",
      "{96ea}{82b1}", "{767d}{96ea}{7691}{7691}", "{9e45}{6bdb}{5927}{96ea}",
      "snow", "blizzard", "snowstorm", "winter", "freezing", "frost">>
sunny_keywords ==
    <<"{6674}{6717}", "{9633}{5149}{660e}{5a9a}", "{84dd}{5929}",
      "{4e07}{91cc}{65e0}{4e91}", "{8273}{9633}{9ad8}{7167}",
      "{6674}{7a7a}{4e07}{91cc}",
      "sunny", "clear sky", "sunshine", "bright", "clear">>
winter_keywords ==
    <<"{5927}{96ea}", "{5bd2}{51ac}", "{51b0}{96ea}", "snow", "winter",
      "freezing", "cold">>
summer_keywords ==
    <<"{708e}{70ed}", "{9177}{6691}", "{77ed}{8896}", "summer", "hot",
      "scorching">>
crowded_keywords ==
    <<"{4eba}{5c71}{4eba}{6d77}", "{5ea7}{65e0}{865a}{5e2d}",
      "{4eba}{6ee1}{4e3a}{60a3}", "{62e5}{6324}", "{4eba}{6f6e}{6d8c}{52a8}",
      "{7199}{7199}{6518}{6518}", "crowded", "packed", "full house">>
empty_keywords ==
    <<"{7a7a}{65e0}{4e00}{4eba}", "{7a7a}{8361}{8361}", "{65e0}{4eba}",
      "{51b7}{6e05}", "{7a7a}{65f7}", "empty", "deserted", "nobody">>

\* a dict, in insertion order: <<state_key, anti_keywords>>
state_conflicts ==
    << <<"closed", <<"{655e}{5f00}", "{6b22}{8fce}", "open", "welcome">> >>,
       <<"sleeping", <<"{98de}{5954}", "{8ffd}{9010}", "running", "active">> >>,
       <<"empty", <<"{4e30}{76db}", "{6ee1}", "{62e5}{6324}",
                    "{4eba}{5c71}{4eba}{6d77}", "full", "crowded">> >>,
       <<"red light", <<"{7eff}{706f}", "{901a}{884c}", "green light", "go">> >>,
       <<"broken", <<"{5168}{65b0}", "{5b8c}{7f8e}", "{65e0}{7455}",
                     "brand new", "perfect">> >>,
       <<"cracked", <<"{5168}{65b0}", "{5b8c}{7f8e}", "{65e0}{7455}",
                      "brand new", "perfect">> >>,
       <<"sold out", <<"{5145}{8db3}", "{73b0}{8d27}", "available",
                       "in stock">> >>,
       <<"0-5", <<"{9886}{5148}", "{80dc}{5238}{5728}{63e1}", "winning",
                  "leading">> >>,
       <<"handshake", <<"{51b2}{7a81}", "{6253}{67b6}", "{7834}{88c2}",
                        "conflict", "fight">> >>,
       <<"red card", <<"{7ee7}{7eed}", "{65e0}{72af}{89c4}", "{5408}{7406}",
                       "continue", "no foul">> >> >>

finance_kws ==
    <<"a{80a1}", "{725b}{5e02}", "{718a}{5e02}", "{80a1}{5e02}",
      "{5927}{76d8}", "{6307}{6570}", "{9ed1}{5929}{9e45}{4e8b}{4ef6}">>
crash_kws ==
    <<"{66b4}{8dcc}", "{5d29}{76d8}", "{4ef7}{683c}",
      "{6ce1}{6cab}{7834}{88c2}", "{8d44}{4ea7}">>

\* the attributes of an instance when __init__ returns
LogicReasoner ==
    [night_keywords   |-> night_keywords,
     day_keywords     |-> day_keywords,
     storm_keywords   |-> storm_keywords,
     snow_keywords    |-> snow_keywords,
     sunny_keywords   |-> sunny_keywords,
     winter_keywords  |-> winter_keywords,
     summer_keywords  |-> summer_keywords,
     crowded_keywords |-> crowded_keywords,
     empty_keywords   |-> empty_keywords,
     state_conflicts  |-> state_conflicts,
     finance_kws      |-> finance_kws,
     crash_kws        |-> crash_kws,
     model_loaded     |-> FALSE]

-----------------------------------------------------------------------------
(* LogicReasoner._vlm_captioning_mock *)

\* the caption with Day as the Time of a record that has no Meta_Time
vlm_captioning_mock_DayDefault(img_path, meta) ==
    [Time     |-> strip(str(Get(meta, "Meta_Time", "Day"))),
     Weather  |-> strip(str(Get(meta, "Meta_Weather", "Unknown"))),
     Location |-> strip(str(Get(meta, "Meta_Location", "Unknown"))),
     Fact     |-> strip(str(Get(meta, "Meta_Fact", "Unknown"))),
     Objects  |-> strip(str(Get(meta, "Meta_Object", "Unknown"))),
     Topic    |-> strip(str(Get(meta, "Meta_Topic", "Unknown")))]

vlm_captioning_mock(img_path, meta) ==
    [Time     |-> strip(str(Get(meta, "Meta_Time", "Unknown"))),
     Weather  |-> strip(str(Get(meta, "Meta_Weather", "Unknown"))),
     Location |-> strip(str(Get(meta, "Meta_Location", "Unknown"))),
     Fact     |-> strip(str(Get(meta, "Meta_Fact", "Unknown"))),
     Objects  |-> strip(str(Get(meta, "Meta_Object", "Unknown"))),
     Topic    |-> strip(str(Get(meta, "Meta_Topic", "Unknown")))]

-----------------------------------------------------------------------------
(* LogicReasoner._mock_reasoning *)

CONSISTENT == "[CONSISTENT] Visual evidence aligns with text description"

\* the locals with the text compared as written, not lowered
Normalise_TextAsWritten(visual_facts, txt, img_path) ==
    LET img_time     == Get(visual_facts, "Time", "Unknown")
        img_weather  == Get(visual_facts, "Weather", "Unknown")
        img_location == Get(visual_facts, "Location", "Unknown")
        img_fact     == Get(visual_facts, "Fact", "Unknown")
        img_objects  == Get(visual_facts, "Objects", "Unknown")
        img_topic    == Get(visual_facts, "Topic", "Unknown")
    IN  [img_time          |-> img_time,
         img_weather       |-> img_weather,
         img_fact          |-> img_fact,
         text_norm         |-> str(txt),
         img_time_norm     |-> lower(str(img_time)),
         img_weather_norm  |-> lower(str(img_weather)),
         img_location_norm |-> lower(str(img_location)),
         img_fact_norm     |-> lower(str(img_fact)),
         img_objects_norm  |-> lower(str(img_objects)),
         img_topic_norm    |-> lower(str(img_topic)),
         file_name         |-> IF img_path # "" THEN lower(basename(img_path))
                               ELSE ""]

\* the locals read by the rules, after normalisation
Normalise(visual_facts, txt, img_path) ==
    LET img_time     == Get(visual_facts, "Time", "Unknown")
        img_weather  == Get(visual_facts, "Weather", "Unknown")
        img_location == Get(visual_facts, "Location", "Unknown")
        img_fact     == Get(visual_facts, "Fact", "Unknown")
        img_objects  == Get(visual_facts, "Objects", "Unknown")
        img_topic    == Get(visual_facts, "Topic", "Unknown")
    IN  [img_time          |-> img_time,
         img_weather       |-> img_weather,
         img_fact          |-> img_fact,
         text_norm         |-> lower(str(txt)),
         img_time_norm     |-> lower(str(img_time)),
         img_weather_norm  |-> lower(str(img_weather)),
         img_location_norm |-> lower(str(img_location)),
         img_fact_norm     |-> lower(str(img_fact)),
         img_objects_norm  |-> lower(str(img_objects)),
         img_topic_norm    |-> lower(str(img_topic)),
         file_name         |-> IF img_path # "" THEN lower(basename(img_path))
                               ELSE ""]

Found(r) == [conflict_detected |-> TRUE, reason |-> r]

\* Rule A: Temporal
RuleA(st, n) ==
    IF n.img_time_norm = "day"
    THEN LET matched_kw == FirstHit(night_keywords, n.text_norm)
         IN  IF matched_kw # None
             THEN Found("[CONFLICT] Temporal: Image shows '" \o n.img_time
                        \o "' (day) vs Text mentions '" \o matched_kw \o "'")
             ELSE st
    ELSE IF n.img_time_norm = "night"
    THEN LET matched_kw == FirstHit(day_keywords, n.text_norm)
         IN  IF matched_kw # None
             THEN Found("[CONFLICT] Temporal: Image shows '" \o n.img_time
                        \o "' (night) vs Text mentions '" \o matched_kw \o "'")
             ELSE st
    ELSE st

\* Rule B: Weather
sunny_scene(n) == \E kw \in {"sunny", "clear", "{6674}"} : Contains(n.img_weather_norm, kw)
snow_scene(n)  == \E kw \in {"snow", "{96ea}", "winter"} : Contains(n.img_weather_norm, kw)
rain_scene(n)  == \E kw \in {"rain", "{96e8}", "storm"} : Contains(n.img_weather_norm, kw)

\* Rule B with a fifth branch: a snow scene against a storm or rain keyword
RuleB_SnowRain(st, n) ==
    IF st.conflict_detected THEN st
    ELSE
    LET storm_hit  == FirstHitLower(storm_keywords, n.text_norm)
        snow_hit   == FirstHitLower(snow_keywords, n.text_norm)
        summer_hit == FirstHitLower(summer_keywords, n.text_norm)
        sunny_hit  == FirstHitLower(sunny_keywords, n.text_norm)
        st1 == IF sunny_scene(n) /\ storm_hit # None
               THEN Found("[CONFLICT] Weather: Image '" \o n.img_weather
                          \o "' (sunny/clear) vs Text '" \o storm_hit \o "'")
               ELSE st
        st2 == IF ~st1.conflict_detected /\ sunny_scene(n) /\ snow_hit # None
               THEN Found("[CONFLICT] Weather: Image '" \o n.img_weather
                          \o "' (sunny) vs Text '" \o snow_hit \o "'")
               ELSE st1
        st3 == IF ~st2.conflict_detected /\ snow_scene(n) /\ summer_hit # None
               THEN Found("[CONFLICT] Weather: Image '" \o n.img_weather
                          \o "' (snow) vs Text '" \o summer_hit \o "'")
               ELSE st2
        st4 == IF ~st3.conflict_detected /\ snow_scene(n) /\ storm_hit # None
               THEN Found("[CONFLICT] Weather: Image '" \o n.img_weather
                          \o "' (snow) vs Text '" \o storm_hit \o "'")
               ELSE st3
    IN  IF ~st4.conflict_detected /\ rain_scene(n) /\ sunny_hit # None
        THEN Found("[CONFLICT] Weather: Image '" \o n.img_weather
                   \o "' (rain) vs Text '" \o sunny_hit \o "'")
        ELSE st4

\* Rule B with the second branch not guarded by "not conflict_detected"
RuleB_Overwrites(st, n) ==
    IF st.conflict_detected THEN st
    ELSE
    LET storm_hit  == FirstHitLower(storm_keywords, n.text_norm)
        snow_hit   == FirstHitLower(snow_keywords, n.text_norm)
        summer_hit == FirstHitLower(summer_keywords, n.text_norm)
        sunny_hit  == FirstHitLower(sunny_keywords, n.text_norm)
        st1 == IF sunny_scene(n) /\ storm_hit # None
               THEN Found("[CONFLICT] Weather: Image '" \o n.img_weather
                          \o "' (sunny/clear) vs Text '" \o storm_hit \o "'")
               ELSE st
        st2 == IF sunny_scene(n) /\ snow_hit # None
               THEN Found("[CONFLICT] Weather: Image '" \o n.img_weather
                          \o "' (sunny) vs Text '" \o snow_hit \o "'")
               ELSE st1
        st3 == IF ~st2.conflict_detected /\ snow_scene(n) /\ summer_hit # None
               THEN Found("[CONFLICT] Weather: Image '" \o n.img_weather
                          \o "' (snow) vs Text '" \o summer_hit \o "'")
               ELSE st2
    IN  IF ~st3.conflict_detected /\ rain_scene(n) /\ sunny_hit # None
        THEN Found("[CONFLICT] Weather: Image '" \o n.img_weather
                   \o "' (rain) vs Text '" \o sunny_hit \o "'")
        ELSE st3

RuleB(st, n) ==
    IF st.conflict_detected THEN st
    ELSE
    LET storm_hit  == FirstHitLower(storm_keywords, n.text_norm)
        snow_hit   == FirstHitLower(snow_keywords, n.text_norm)
        summer_hit == FirstHitLower(summer_keywords, n.text_norm)
        sunny_hit  == FirstHitLower(sunny_keywords, n.text_norm)
        st1 == IF sunny_scene(n) /\ storm_hit # None
               THEN Found("[CONFLICT] Weather: Image '" \o n.img_weather
                          \o "' (sunny/clear) vs Text '" \o storm_hit \o "'")
               ELSE st
        st2 == IF ~st1.conflict_detected /\ sunny_scene(n) /\ snow_hit # None
               THEN Found("[CONFLICT] Weather: Image '" \o n.img_weather
                          \o "' (sunny) vs Text '" \o snow_hit \o "'")
               ELSE st1
        st3 == IF ~st2.conflict_detected /\ snow_scene(n) /\ summer_hit # None
               THEN Found("[CONFLICT] Weather: Image '" \o n.img_weather
                          \o "' (snow) vs Text '" \o summer_hit \o "'")
               ELSE st2
    IN  IF ~st3.conflict_detected /\ rain_scene(n) /\ sunny_hit # None
        THEN Found("[CONFLICT] Weather: Image '" \o n.img_weather
                   \o "' (rain) vs Text '" \o sunny_hit \o "'")
        ELSE st3

\* Rule C: Geospatial/Entity.  <<landmarks, wrong cities, name in the reason>>
paris_landmarks    == <<"eiffel tower", "{57c3}{83f2}{5c14}{94c1}{5854}", "{5df4}{9ece}", "paris">>
wrong_cities_for_paris ==
    <<"tokyo", "{4e1c}{4eac}", "london", "{4f26}{6566}", "beijing",
      "{5317}{4eac}", "new york", "{7ebd}{7ea6}">>
tokyo_landmarks    == <<"tokyo tower", "{4e1c}{4eac}{5854}", "tokyo", "{4e1c}{4eac}">>
wrong_cities_for_tokyo ==
    <<"paris", "{5df4}{9ece}", "eiffel", "{57c3}{83f2}{5c14}", "london",
      "{4f26}{6566}", "shanghai", "{4e0a}{6d77}">>
shanghai_landmarks == <<"{4e1c}{65b9}{660e}{73e0}", "{9646}{5bb6}{5634}", "shanghai", "{4e0a}{6d77}">>
wrong_cities_for_shanghai ==
    <<"tokyo", "{4e1c}{4eac}", "beijing", "{5317}{4eac}", "hong kong",
      "{9999}{6e2f}">>
sydney_landmarks   == <<"sydney opera house", "{6089}{5c3c}{6b4c}{5267}{9662}", "sydney", "{6089}{5c3c}">>
wrong_cities_for_sydney ==
    <<"beijing", "{5317}{4eac}", "tokyo", "{4e1c}{4eac}", "london",
      "{4f26}{6566}">>
london_bridge      == <<"london bridge", "tower bridge", "{4f26}{6566}{5854}{6865}", "{4f26}{6566}{6865}">>
golden_gate        == <<"golden gate", "{91d1}{95e8}{5927}{6865}", "san francisco", "{65e7}{91d1}{5c71}">>

\* one C1..C5 block: landmarks in Objects or Location, a wrong city in the text
GeoBlock(st, n, landmarks, wrong, shown) ==
    IF ~st.conflict_detected
       /\ AnyIn(landmarks, n.img_objects_norm, n.img_location_norm)
    THEN LET matched_city == FirstHit(wrong, n.text_norm)
         IN  IF matched_city # None
             THEN Found("[CONFLICT] Geolocation: Image shows " \o shown
                        \o " vs Text '" \o matched_city \o "'")
             ELSE st
    ELSE st

\* Rule C as an if/elif chain over the landmark tests: a later block is tried
\* only when no earlier block's landmark is in Objects or Location
RuleC_Elif(st, n) ==
    IF st.conflict_detected THEN st
    ELSE IF AnyIn(paris_landmarks, n.img_objects_norm, n.img_location_norm)
    THEN GeoBlock(st, n, paris_landmarks, wrong_cities_for_paris, "Paris/Eiffel Tower")
    ELSE IF AnyIn(tokyo_landmarks, n.img_objects_norm, n.img_location_norm)
    THEN GeoBlock(st, n, tokyo_landmarks, wrong_cities_for_tokyo, "Tokyo")
    ELSE IF AnyIn(shanghai_landmarks, n.img_objects_norm, n.img_location_norm)
    THEN GeoBlock(st, n, shanghai_landmarks, wrong_cities_for_shanghai, "Shanghai")
    ELSE IF AnyIn(sydney_landmarks, n.img_objects_norm, n.img_location_norm)
    THEN GeoBlock(st, n, sydney_landmarks, wrong_cities_for_sydney, "Sydney")
    ELSE GeoBlock(st, n, london_bridge, golden_gate, "London Bridge")

RuleC(st, n) ==
    IF st.conflict_detected THEN st
    ELSE
    LET c1 == GeoBlock(st, n, paris_landmarks, wrong_cities_for_paris, "Paris/Eiffel Tower")
        c2 == GeoBlock(c1, n, tokyo_landmarks, wrong_cities_for_tokyo, "Tokyo")
        c3 == GeoBlock(c2, n, shanghai_landmarks, wrong_cities_for_shanghai, "Shanghai")
        c4 == GeoBlock(c3, n, sydney_landmarks, wrong_cities_for_sydney, "Sydney")
    IN  GeoBlock(c4, n, london_bridge, golden_gate, "London Bridge")

\* Rule D: Quantity/Fact
empty_scene(n) ==
    \E kw \in {"empty", "{7a7a}", "no people", "{65e0}{4eba}", "deserted"} :
        Contains(n.img_fact_norm, lower(kw))
crowded_scene(n) ==
    \E kw \in {"crowded", "{62e5}{6324}", "{4eba}{591a}", "many people"} :
        Contains(n.img_fact_norm, lower(kw))

\* Rule D with the first direction only: an empty scene against crowd keywords
RuleD_OneWay(st, n) ==
    IF st.conflict_detected THEN st
    ELSE
    LET crowded_hit == FirstHitLower(crowded_keywords, n.text_norm)
    IN  IF empty_scene(n) /\ crowded_hit # None
        THEN Found("[CONFLICT] Fact: Image '" \o n.img_fact
                   \o "' (empty) vs Text '" \o crowded_hit \o "'")
        ELSE st

\* Rule D with the crowded keywords of the text tested whatever the Fact
\* attribute shows
RuleD_AnyScene(st, n) ==
    IF st.conflict_detected THEN st
    ELSE
    LET crowded_hit == FirstHitLower(crowded_keywords, n.text_norm)
        empty_hit   == FirstHitLower(empty_keywords, n.text_norm)
        d1 == IF crowded_hit # None
              THEN Found("[CONFLICT] Fact: Image '" \o n.img_fact
                         \o "' (empty) vs Text '" \o crowded_hit \o "'")
              ELSE st
    IN  IF ~d1.conflict_detected /\ crowded_scene(n) /\ empty_hit # None
        THEN Found("[CONFLICT] Fact: Image '" \o n.img_fact
                   \o "' (crowded) vs Text '" \o empty_hit \o "'")
        ELSE d1

RuleD(st, n) ==
    IF st.conflict_detected THEN st
    ELSE
    LET crowded_hit == FirstHitLower(crowded_keywords, n.text_norm)
        empty_hit   == FirstHitLower(empty_keywords, n.text_norm)
        d1 == IF empty_scene(n) /\ crowded_hit # None
              THEN Found("[CONFLICT] Fact: Image '" \o n.img_fact
                         \o "' (empty) vs Text '" \o crowded_hit \o "'")
              ELSE st
    IN  IF ~d1.conflict_detected /\ crowded_scene(n) /\ empty_hit # None
        THEN Found("[CONFLICT] Fact: Image '" \o n.img_fact
                   \o "' (crowded) vs Text '" \o empty_hit \o "'")
        ELSE d1

\* Rule E: Manual Trigger
trigger_keywords ==
    <<"{903b}{8f91}{9519}{8bef}", "{660e}{663e}{77db}{76fe}", "logic_trap",
      "conflict_test">>

\* Rule E applied only to the files named logic_*, as Rule F is
RuleE_LogicFilesOnly(st, n) ==
    IF st.conflict_detected THEN st
    ELSE LET matched_kw == FirstHit(trigger_keywords, n.text_norm)
         IN  IF matched_kw # None /\ StartsWith(n.file_name, "logic_")
             THEN Found("[CONFLICT] Manual Trigger: '" \o matched_kw \o "' detected")
             ELSE st

RuleE(st, n) ==
    IF st.conflict_detected THEN st
    ELSE LET matched_kw == FirstHit(trigger_keywords, n.text_norm)
         IN  IF matched_kw # None
             THEN Found("[CONFLICT] Manual Trigger: '" \o matched_kw \o "' detected")
             ELSE st

\* Rule G: State/OCR.  The loop over state_conflicts.items() breaks at the
\* first entry whose key is in Fact or Objects and that has an antonym in the text.
StateEntryHit(i, n) ==
    /\ Contains(n.img_fact_norm, state_conflicts[i][1])
       \/ Contains(n.img_objects_norm, state_conflicts[i][1])
    /\ FirstHitLower(state_conflicts[i][2], n.text_norm) # None

\* Rule G with no break: the last entry that matches is the one reported
RuleG_NoBreak(st, n) ==
    IF st.conflict_detected THEN st
    ELSE IF \E i \in 1..Len(state_conflicts) : StateEntryHit(i, n)
    THEN LET i == CHOOSE k \in 1..Len(state_conflicts) :
                      /\ StateEntryHit(k, n)
                      /\ \A j \in (k + 1)..Len(state_conflicts) : ~StateEntryHit(j, n)
             matched_anti == FirstHitLower(state_conflicts[i][2], n.text_norm)
         IN  Found("[CONFLICT] State/OCR: Image '" \o state_conflicts[i][1]
                   \o "' vs Text '" \o matched_anti \o "'")
    ELSE st

RuleG(st, n) ==
    IF st.conflict_detected THEN st
    ELSE IF \E i \in 1..Len(state_conflicts) : StateEntryHit(i, n)
    THEN LET i == CHOOSE k \in 1..Len(state_conflicts) :
                      /\ StateEntryHit(k, n)
                      /\ \A j \in 1..(k - 1) : ~StateEntryHit(j, n)
             matched_anti == FirstHitLower(state_conflicts[i][2], n.text_norm)
         IN  Found("[CONFLICT] State/OCR: Image '" \o state_conflicts[i][1]
                   \o "' vs Text '" \o matched_anti \o "'")
    ELSE st

\* Rule H: Topic / Polysemy
animal_topics == {"animal", "living animal", "{52a8}{7269}", "{751f}{7269}"}
object_topics == {"sports", "object", "soap bubble", "{4f53}{80b2}", "{7269}{4f53}", "{6ce1}{6ce1}"}

\* Rule H with the tags looked for in Topic, Fact and Objects
RuleH_CombinedView(st, n) ==
    LET tagged(tags) ==
            \E tag \in tags : \/ Contains(n.img_topic_norm, tag)
                              \/ Contains(n.img_fact_norm, tag)
                              \/ Contains(n.img_objects_norm, tag)
    IN  IF st.conflict_detected THEN st
        ELSE IF tagged(animal_topics)
        THEN LET matched_finance == FirstHit(finance_kws, n.text_norm)
             IN  IF matched_finance # None
                 THEN Found("[CONFLICT] Polysemy: Image real animal vs Text finance '"
                            \o matched_finance \o "'")
                 ELSE st
        ELSE IF tagged(object_topics)
        THEN LET matched_crash == FirstHit(crash_kws, n.text_norm)
             IN  IF matched_crash # None
                 THEN Found("[CONFLICT] Polysemy: Image physical object vs Text economic '"
                            \o matched_crash \o "'")
                 ELSE st
        ELSE st

RuleH(st, n) ==
    IF st.conflict_detected THEN st
    ELSE IF n.img_topic_norm \in animal_topics
    THEN LET matched_finance == FirstHit(finance_kws, n.text_norm)
         IN  IF matched_finance # None
             THEN Found("[CONFLICT] Polysemy: Image real animal vs Text finance '"
                        \o matched_finance \o "'")
             ELSE st
    ELSE IF n.img_topic_norm \in object_topics
    THEN LET matched_crash == FirstHit(crash_kws, n.text_norm)
         IN  IF matched_crash # None
             THEN Found("[CONFLICT] Polysemy: Image physical object vs Text economic '"
                        \o matched_crash \o "'")
             ELSE st
    ELSE st

\* Rule F: file-name prefix.  The branch only prints a warning.
\* Rule F reporting a conflict for a logic_* file that no rule caught
RuleF_Flags(st, n) ==
    IF ~st.conflict_detected /\ StartsWith(n.file_name, "logic_")
    THEN Found("[CONFLICT] Naming: logic_ prefix but no conflict detected")
    ELSE st

RuleF(st, n) ==
    IF ~st.conflict_detected /\ StartsWith(n.file_name, "logic_") THEN st ELSE st

\* the rules with the Manual Trigger rule after the State/OCR and Topic rules
RuleChain_ManualLast(n) ==
    LET st0 == [conflict_detected |-> FALSE, reason |-> CONSISTENT]
    IN  RuleF(RuleE(RuleH(RuleG(RuleD(RuleC(RuleB(RuleA(st0, n), n), n), n), n), n), n), n)

\* the rules with the Weather rule tried before the Temporal rule
RuleChain_WeatherFirst(n) ==
    LET st0 == [conflict_detected |-> FALSE, reason |-> CONSISTENT]
        b   == RuleB(st0, n)
    IN  IF b.conflict_detected THEN b
        ELSE RuleF(RuleH(RuleG(RuleE(RuleD(RuleC(RuleA(st0, n), n), n), n), n), n), n)

\* the rules in the order of the function body: A, B, C, D, E, G, H, F
RuleChain(n) ==
    LET st0 == [conflict_detected |-> FALSE, reason |-> CONSISTENT]
    IN  RuleF(RuleH(RuleG(RuleE(RuleD(RuleC(RuleB(RuleA(st0, n), n), n), n), n), n), n), n)

mock_reasoning(visual_facts, txt, img_path) ==
    RuleChain(Normalise(visual_facts, txt, img_path))

\* LogicReasoner.reasoning, and check_logic on the module's reasoner
reasoning(img_path, txt, meta) ==
    mock_reasoning(vlm_captioning_mock(img_path, meta), txt, img_path)

check_logic(img_path, txt, meta) == reasoning(img_path, txt, meta)

-----------------------------------------------------------------------------
(* Inputs of the rule engine *)

MetaKeys == {"Meta_Time", "Meta_Weather", "Meta_Location", "Meta_Fact",
             "Meta_Object", "Meta_Topic"}

\* values a metadata cell takes, besides Unknown
MetaValues ==
    [Meta_Time     |-> {"Day", "NIGHT "},
     Meta_Weather  |-> {"Sunny", "Rain", "Cloudy"},
     Meta_Location |-> {"Paris"},
     Meta_Fact     |-> {"Empty", "Closed"},
     Meta_Object   |-> {"broken cup"},
     Meta_Topic    |-> {"Animal"}]

\* metadata records with at most two informative cells
Metas ==
    UNION {{[k \in MetaKeys |-> IF k = p[1] THEN va ELSE IF k = p[2] THEN vb
                                ELSE "Unknown"] :
               va \in MetaValues[p[1]] \cup {"Unknown"},
               vb \in MetaValues[p[2]] \cup {"Unknown"}} :
           p \in MetaKeys \X MetaKeys}

\* words of a text: each holds a keyword of one or two lists
Words ==
    <<"Tonight", "sunny", "storm", "tokyo", "crowded", "open", "perfect",
      "{725b}{5e02}", "conflict_test">>

MaxWords == 2

\* the words at the indices of ws, in the order of Words, joined by spaces
RECURSIVE Join(_, _)
Join(ws, i) ==
    IF i > Len(Words) THEN ""
    ELSE IF i \in ws
         THEN LET rest == Join(ws, i + 1)
              IN  IF rest = "" THEN Words[i] ELSE Words[i] \o " " \o rest
         ELSE Join(ws, i + 1)

Texts == {Join(ws, 1) : ws \in {w \in SUBSET (1..Len(Words)) : Cardinality(w) <= MaxWords}}

ImagePaths == {"data/images/real_001.jpg", "data/images/logic_001.jpg"}

\* a metadata record with every cell Unknown, with one or two cells given
UnknownMeta == [k \in MetaKeys |-> "Unknown"]
With(k, v) == [UnknownMeta EXCEPT ![k] = v]
With2(k1, v1, k2, v2) == [UnknownMeta EXCEPT ![k1] = v1, ![k2] = v2]

\* a record with every cell informative, and its restrictions: the records in
\* which any set of keys is absent
FullMeta ==
    [Meta_Time |-> "Day", Meta_Weather |-> "Sunny", Meta_Location |-> "Paris",
     Meta_Fact |-> "Empty", Meta_Object |-> "broken cup", Meta_Topic |-> "Animal"]
PartialMetas == {[k \in D |-> FullMeta[k]] : D \in SUBSET MetaKeys}

Call(t, m) == [text |-> t, meta_data |-> m]

\* calls on records with absent keys
PartialCalls ==
    {Call(t, m) : t \in {""} \cup {Words[i] : i \in 1..Len(Words)},
                  m \in PartialMetas}

\* calls on the weather branches
WeatherCalls ==
    {Call(t, With("Meta_Weather", w)) :
        t \in {"storm", "snow", "storm snow", "hot", "sunny", "hot sunny"},
        w \in {"Sunny", "Clear sky", "Snow", "Rain", "Rain and Snow", "Cloudy"}}

\* calls on the landmark blocks
GeoCalls ==
    {Call(t, m) :
        t \in {"tokyo", "shanghai", "paris", "golden gate", "hello"},
        m \in {With("Meta_Location", "Paris"), With("Meta_Location", "Shanghai"),
               With("Meta_Location", "Sydney"), With("Meta_Object", "Eiffel Tower"),
               With("Meta_Object", "Tokyo Tower"), With("Meta_Object", "London Bridge"),
               With2("Meta_Location", "Paris", "Meta_Object", "Tokyo Tower")}}

\* calls on the Quantity/Fact pair
FactCalls ==
    {Call(t, With("Meta_Fact", f)) :
        t \in {"crowded", "deserted", "crowded deserted", "hello"},
        f \in {"Empty", "Crowded", "Many people, no empty seat"}}

\* calls on every entry of the state table: the state key as Fact or as
\* Objects, each antonym as the text, alone or after a trigger keyword
StateCalls ==
    UNION {{Call(t, m) :
               t \in UNION {{state_conflicts[i][2][j],
                              "logic_trap " \o state_conflicts[i][2][j]} :
                                j \in 1..Len(state_conflicts[i][2])},
               m \in {With("Meta_Fact", state_conflicts[i][1]),
                      With("Meta_Object", state_conflicts[i][1])}} :
           i \in 1..Len(state_conflicts)}
    \cup {Call(t, With2("Meta_Fact", "Cracked", "Meta_Object", "broken cup")) :
             t \in {"perfect", "brand new"}}

\* calls on the Topic rule: the tag as Topic, as Fact or as Objects
TopicCalls ==
    {Call(t, With(k, v)) :
        t \in {"{725b}{5e02}", "{66b4}{8dcc}", "hello"},
        k \in {"Meta_Topic", "Meta_Fact", "Meta_Object"},
        v \in {"Animal", "Sports", "Wild animal"}}

\* calls on the keyword match: keywords inside longer words, in either case
SubstringCalls ==
    {Call(t, m) :
        t \in {"tonight", "a knight", "KNIGHT", "nigh", "overcrowded", "hello"},
        m \in {With("Meta_Time", "Day"), With("Meta_Fact", "Empty"), UnknownMeta}}

\* calls on the trigger keywords
TriggerCalls ==
    {Call(t, m) :
        t \in {trigger_keywords[i] : i \in 1..Len(trigger_keywords)}
               \cup {"LOGIC_TRAP", "no logic_trap here", "logic trap"},
        m \in {UnknownMeta, FullMeta, With("Meta_Weather", "Cloudy")}}

SuiteCalls ==
    PartialCalls \cup WeatherCalls \cup GeoCalls \cup FactCalls \cup StateCalls
    \cup TopicCalls \cup SubstringCalls \cup TriggerCalls

-----------------------------------------------------------------------------
(* reasoner.py: one call of check_logic on the module-level reasoner.  The  *)
(* arguments of the call are drawn when the script starts; locals keeps the  *)
(* locals of _mock_reasoning after lines 295-312.                            *)

CheckLogic ==
    /\ program = "reasoner"
    /\ Len(rs_call) = 1
    /\ rs_return = <<>>
    /\ rs_return' = <<check_logic(rs_call[1].image_path, rs_call[1].text,
                                  rs_call[1].meta_data)>>
    /\ locals' = Normalise(vlm_captioning_mock(rs_call[1].image_path,
                                               rs_call[1].meta_data),
                           rs_call[1].text, rs_call[1].image_path)
    /\ UNCHANGED <<program, rs_call, ch1_detector, get_ch2_score,
                   get_logic_score, model, tokenizer, pc, idx, results,
                   sim_results, reasoner, workers>>

-----------------------------------------------------------------------------
(* reasoner.py: check_logic called by several workers on the module-level   *)
(* reasoner.  A call is a frame of reasoning(): its arguments and its local *)
(* visual_facts.  The two statements of reasoning() that call a method are   *)
(* steps, and the steps of different workers interleave.                     *)

Workers == {1, 2}

\* calls made in all, by all workers
MaxCalls == 3

NoFrame == [image_path |-> "", text |-> "", meta_data |-> <<>>, visual_facts |-> <<>>]
Idle == [pc |-> "idle", frame |-> NoFrame]

\* the calls a worker makes: one for each of four results
WorkerCalls ==
    {Call("tonight", With("Meta_Time", "Day")),
     Call("storm", With("Meta_Weather", "Sunny")),
     Call("conflict_test", UnknownMeta),
     Call("hello", UnknownMeta)}

\* line 266 with the instance keeping the last conflict, which the following
\* calls return
reasoning_return_Sticky(self, frame) ==
    LET r == mock_reasoning(frame.visual_facts, frame.text, frame.image_path)
    IN  [self |-> [self EXCEPT !.model_loaded = @ \/ r.conflict_detected],
         ret  |-> IF self.model_loaded THEN Found("[CONFLICT] earlier call") ELSE r]

\* line 262: visual_facts = self._vlm_captioning_mock(image_path, meta_data)
reasoning_caption(self, frame) ==
    [self  |-> self,
     frame |-> [frame EXCEPT !.visual_facts =
                    vlm_captioning_mock(frame.image_path, frame.meta_data)]]

\* line 266: return self._mock_reasoning(visual_facts, text, image_path)
reasoning_return(self, frame) ==
    [self |-> self,
     ret  |-> mock_reasoning(frame.visual_facts, frame.text, frame.image_path)]

\* a worker calls check_logic: lines 533 and 258-259
WorkerCall(w) ==
    /\ program = "reasoner_workers"
    /\ workers[w].pc = "idle"
    /\ Len(rs_return) + Cardinality({v \in Workers : workers[v].pc # "idle"}) < MaxCalls
    /\ \E c \in WorkerCalls :
          workers' = [workers EXCEPT ![w] =
                         [pc |-> "reasoning",
                          frame |-> [image_path |-> "data/images/logic_001.jpg",
                                     text |-> c.text, meta_data |-> c.meta_data,
                                     visual_facts |-> <<>>]]]
    /\ UNCHANGED <<program, rs_call, rs_return, ch1_detector, get_ch2_score,
                   get_logic_score, model, tokenizer, pc, idx, results, locals,
                   sim_results, reasoner>>

WorkerCaption(w) ==
    /\ program = "reasoner_workers"
    /\ workers[w].pc = "reasoning"
    /\ LET o == reasoning_caption(reasoner, workers[w].frame)
       IN  /\ reasoner' = o.self
           /\ workers' = [workers EXCEPT ![w] = [pc |-> "captioned", frame |-> o.frame]]
    /\ UNCHANGED <<program, rs_call, rs_return, ch1_detector, get_ch2_score,
                   get_logic_score, model, tokenizer, pc, idx, results, locals,
                   sim_results>>

\* the call returns; the log of calls is kept in the order of the returns
WorkerReturn(w) ==
    /\ program = "reasoner_workers"
    /\ workers[w].pc = "captioned"
    /\ LET o == reasoning_return(reasoner, workers[w].frame)
           f == workers[w].frame
       IN  /\ reasoner' = o.self
           /\ rs_call' = Append(rs_call, [image_path |-> f.image_path, text |-> f.text,
                                          meta_data |-> f.meta_data])
           /\ rs_return' = Append(rs_return, o.ret)
    /\ workers' = [workers EXCEPT ![w] = Idle]
    /\ UNCHANGED <<program, ch1_detector, get_ch2_score,
                   get_logic_score, model, tokenizer, pc, idx, results, locals,
                   sim_results>>

-----------------------------------------------------------------------------
(* interface.py: the Ch3 score provider *)

Digits == <<"0", "1", "2", "3", "4", "5", "6", "7", "8", "9">>
IsDigit(c) == \E d \in 1..10 : Digits[d] = c
DigitVal(c) == (CHOOSE d \in 1..10 : Digits[d] = c) - 1

\* number of digits of a from position i on
RECURSIVE DigitRun(_, _)
DigitRun(a, i) ==
    IF i <= Len(a) /\ IsDigit(SubSeq(a, i, i)) THEN 1 + DigitRun(a, i + 1) ELSE 0

\* int(a[i..j]) for a run of digits
RECURSIVE IntOf(_, _, _)
IntOf(a, i, j) ==
    IF j < i THEN 0 ELSE 10 * IntOf(a, i, j - 1) + DigitVal(SubSeq(a, j, j))

\* float(nums[0]) * 1000 for nums = re.findall(r"\d+\.?\d*", answer), or None
\* when nums is empty; digits after the third decimal are dropped
FirstNumber(answer) ==
    IF \E i \in 1..Len(answer) : IsDigit(SubSeq(answer, i, i))
    THEN LET i == CHOOSE k \in 1..Len(answer) :
                      /\ IsDigit(SubSeq(answer, k, k))
                      /\ \A j \in 1..(k - 1) : ~IsDigit(SubSeq(answer, j, j))
             n == DigitRun(answer, i)
             dot == i + n <= Len(answer) /\ SubSeq(answer, i + n, i + n) = "."
             f == IF dot THEN DigitRun(answer, i + n + 1) ELSE 0
             d(k) == IF k <= f THEN DigitVal(SubSeq(answer, i + n + k, i + n + k))
                     ELSE 0
         IN  1000 * IntOf(answer, i, i + n - 1) + 100 * d(1) + 10 * d(2) + d(3)
    ELSE -1

HALF == 5000    \* 0.5
ONE == 10000    \* 1.0

\* ParseAnswer without the cap of line 59
ParseAnswer_NoCap(answer) ==
    IF FirstNumber(answer) >= 0
    THEN ONE - FirstNumber(answer)
    ELSE IF Contains(lower(answer), "yes") THEN 1000
    ELSE IF Contains(lower(answer), "no") THEN 9000
    ELSE HALF

\* lines 55-64 and 69: the score for an answer of the model
ParseAnswer(answer) ==
    IF FirstNumber(answer) >= 0
    THEN LET normalized == FirstNumber(answer)        \* val / 10.0
         IN  ONE - (IF normalized > ONE THEN ONE ELSE normalized)
    ELSE IF Contains(lower(answer), "yes") THEN 1000
    ELSE IF Contains(lower(answer), "no") THEN 9000
    ELSE HALF

\* init_model: load is how far the load gets; the globals after the call
LoadOutcomes == {"import_fails", "model_fails", "tokenizer_fails", "eval_fails", "ok"}

init_model(g, load) ==
    IF g.model # None THEN g
    ELSE IF load \in {"import_fails", "model_fails"} THEN g
    ELSE IF load = "tokenizer_fails" THEN [g EXCEPT !.model = "HfMoondream"]
    ELSE [model |-> "HfMoondream", tokenizer |-> "AutoTokenizer"]

\* get_logic_score(image_path, text): inf is what the inference block does,
\* [raises |-> TRUE] or [raises |-> FALSE, answer |-> ...]
logic_score(g, load, inf) ==
    LET g1 == init_model(g, load)
    IN  [globals |-> g1,
         score   |-> IF g1.model = None THEN HALF
                     ELSE IF inf.raises THEN HALF
                     ELSE ParseAnswer(inf.answer)]

\* answers of the model to the rating question: a number in range, a decimal,
\* a number above 10, several numbers, a number inside a sentence, yes and no
\* in either case, no number and no such word, the empty answer
AnswerSuite ==
    {"10", "0", "7.5", "15", "3 or 4", "I'd say 8/10", "Yes.", "no", "maybe", ""}

ScoreOutcomes ==
    {[raises |-> TRUE, answer |-> ""]}
    \cup {[raises |-> FALSE, answer |-> a] : a \in AnswerSuite}

\* calls of get_logic_score made one after the other
MaxScoreCalls == 2

\* one call of get_logic_score(image_path, text), lines 44-69, with the load
\* of init_model drawn when model is None and the inference block's outcome
\* drawn when the call reaches it
GetLogicScore ==
    /\ program = "interface"
    /\ idx < MaxScoreCalls
    /\ \E load \in (IF model = None THEN LoadOutcomes ELSE {"ok"}) :
       \E inf \in (IF init_model([model |-> model, tokenizer |-> tokenizer], load).model
                        # None
                    THEN ScoreOutcomes ELSE {[raises |-> TRUE, answer |-> ""]}) :
          LET before == [model |-> model, tokenizer |-> tokenizer]
              o == logic_score(before, load, inf)
          IN  /\ model' = o.globals.model
              /\ tokenizer' = o.globals.tokenizer
              /\ locals' = [before |-> before, load |-> load, inf |-> inf,
                            ret |-> o.score]
    /\ idx' = idx + 1
    /\ UNCHANGED <<program, rs_call, rs_return, ch1_detector, get_ch2_score,
                   get_logic_score, pc, results, sim_results, reasoner, workers>>

-----------------------------------------------------------------------------
(* interface.py: get_logic_score called by several workers of one process.  *)
(* The globals model and tokenizer are shared; the statements of init_model  *)
(* and of get_logic_score that read or assign them are steps, and the steps  *)
(* of different workers interleave.  Each worker makes one call.             *)

\* the frame of a call: the model loads it performed, and the tokenizer it
\* passed to model.answer_question, "" while it has passed none
ScoreFrame == [loads |-> 0, tokenizer_used |-> ""]

At(w, line) == [workers EXCEPT ![w].pc = line]

\* line 45: get_logic_score calls init_model
ScoreCall(w) ==
    /\ program = "interface_workers"
    /\ workers[w].pc = "idle"
    /\ workers[w].frame = NoFrame
    /\ workers' = [workers EXCEPT ![w] = [pc |-> "line 25", frame |-> ScoreFrame]]
    /\ UNCHANGED <<program, rs_call, rs_return, ch1_detector, get_ch2_score,
                   get_logic_score, model, tokenizer, pc, idx, results, locals,
                   sim_results, reasoner>>

\* line 25: if model is not None: return
InitCheck(w) ==
    /\ program = "interface_workers"
    /\ workers[w].pc = "line 25"
    /\ workers' = At(w, IF model # None THEN "line 46" ELSE "line 32")
    /\ UNCHANGED <<program, rs_call, rs_return, ch1_detector, get_ch2_score,
                   get_logic_score, model, tokenizer, pc, idx, results, locals,
                   sim_results, reasoner>>

\* lines 28-37: the import and HfMoondream.from_pretrained; model is assigned when
\* they succeed, and the except of lines 41-42 ends init_model when they raise
LoadModel(w) ==
    /\ program = "interface_workers"
    /\ workers[w].pc = "line 32"
    /\ \E ok \in BOOLEAN :
          IF ok
          THEN /\ model' = "HfMoondream"
               /\ workers' = [workers EXCEPT ![w].pc = "line 38",
                                             ![w].frame.loads = @ + 1]
          ELSE /\ model' = model
               /\ workers' = At(w, "line 46")
    /\ UNCHANGED <<program, rs_call, rs_return, ch1_detector, get_ch2_score,
                   get_logic_score, tokenizer, pc, idx, results, locals,
                   sim_results, reasoner>>

\* line 38: tokenizer = AutoTokenizer.from_pretrained(...)
LoadTokenizer(w) ==
    /\ program = "interface_workers"
    /\ workers[w].pc = "line 38"
    /\ \E ok \in BOOLEAN :
          IF ok
          THEN /\ tokenizer' = "AutoTokenizer"
               /\ workers' = At(w, "line 39")
          ELSE /\ tokenizer' = tokenizer
               /\ workers' = At(w, "line 46")
    /\ UNCHANGED <<program, rs_call, rs_return, ch1_detector, get_ch2_score,
                   get_logic_score, model, pc, idx, results, locals,
                   sim_results, reasoner>>

\* lines 39-42: model.eval(), which returns or raises; init_model returns
ModelEval(w) ==
    /\ program = "interface_workers"
    /\ workers[w].pc = "line 39"
    /\ workers' = At(w, "line 46")
    /\ UNCHANGED <<program, rs_call, rs_return, ch1_detector, get_ch2_score,
                   get_logic_score, model, tokenizer, pc, idx, results, locals,
                   sim_results, reasoner>>

\* line 46: if model is None: return 0.5
ScoreCheck(w) ==
    /\ program = "interface_workers"
    /\ workers[w].pc = "line 46"
    /\ workers' = At(w, IF model = None THEN "returned" ELSE "line 52")
    /\ UNCHANGED <<program, rs_call, rs_return, ch1_detector, get_ch2_score,
                   get_logic_score, model, tokenizer, pc, idx, results, locals,
                   sim_results, reasoner>>

\* lines 48-69: the inference block passes the global tokenizer to
\* model.answer_question; the call returns a score
Inference(w) ==
    /\ program = "interface_workers"
    /\ workers[w].pc = "line 52"
    /\ workers' = [workers EXCEPT ![w].pc = "returned",
                                  ![w].frame.tokenizer_used = tokenizer]
    /\ UNCHANGED <<program, rs_call, rs_return, ch1_detector, get_ch2_score,
                   get_logic_score, model, tokenizer, pc, idx, results, locals,
                   sim_results, reasoner>>

-----------------------------------------------------------------------------
(* run_system.py: run_full_inference *)

TH_CH1 == 5000
TH_CH2 == 2200
TH_CH3 == 5000

\* "{x:.2f}"
Fmt2(x) ==
    LET c == (x + 50) \div 100
    IN  ToString(c \div 100) \o "." \o ToString((c % 100) \div 10)
        \o ToString(c % 10)

\* round(x, 3)
Round3(x) == ((x + 5) \div 10) * 10

Max(a, b) == IF a >= b THEN a ELSE b

\* " | ".join(reasons)
RECURSIVE JoinReasons(_)
JoinReasons(reasons) ==
    IF Len(reasons) = 0 THEN ""
    ELSE IF Len(reasons) = 1 THEN reasons[1]
    ELSE reasons[1] \o " | " \o JoinReasons(Tail(reasons))

\* Channel 1: det is what ch1_detector.detect does, det.ret what it returns
Ch1Score(img_path, detector, det) ==
    IF img_path # None /\ detector # None
    THEN IF det.kind = "raises" THEN 5000
         ELSE IF det.kind = "float" THEN det.ret[1]     \* float(det_ret)
         ELSE det.ret[1]                                \* float(det_ret[0])
    ELSE 0

\* Channel 2 with 0.0 as the score of a call that is not made
Ch2Score_ZeroDefault(img_path, provider, ret) ==
    IF img_path # None /\ provider # None THEN ret ELSE 0

\* Channel 2
Ch2Score(img_path, provider, ret) ==
    IF img_path # None /\ provider # None THEN ret ELSE 3000

\* Channel 3
Ch3Score(img_path, provider, ret) ==
    IF img_path # None /\ provider # None THEN ret ELSE 0

\* Voting logic
\* CheckCh1 with >= for >: a score on the threshold alarms
CheckCh1_NonStrict(v, s1) ==
    IF s1 >= TH_CH1
    THEN [is_fake  |-> TRUE,
          reasons  |-> Append(v.reasons, "Ch1:Physical Tamper(" \o Fmt2(s1) \o ")"),
          max_risk |-> Max(v.max_risk, s1)]
    ELSE v

CheckCh1(v, s1) ==
    IF s1 > TH_CH1
    THEN [is_fake  |-> TRUE,
          reasons  |-> Append(v.reasons, "Ch1:Physical Tamper(" \o Fmt2(s1) \o ")"),
          max_risk |-> Max(v.max_risk, s1)]
    ELSE v

\* CheckCh2 with the raw score entering max_risk, as for the other channels
CheckCh2_RawRisk(v, s2_raw) ==
    IF s2_raw < TH_CH2
    THEN [is_fake  |-> TRUE,
          reasons  |-> Append(v.reasons, "Ch2:Semantic Mismatch(" \o Fmt2(s2_raw) \o ")"),
          max_risk |-> Max(v.max_risk, s2_raw)]
    ELSE v

CheckCh2(v, s2_raw) ==
    IF s2_raw < TH_CH2
    THEN [is_fake  |-> TRUE,
          reasons  |-> Append(v.reasons, "Ch2:Semantic Mismatch(" \o Fmt2(s2_raw) \o ")"),
          max_risk |-> Max(v.max_risk, 9000)]
    ELSE v

CheckCh3(v, s3) ==
    IF s3 > TH_CH3
    THEN [is_fake  |-> TRUE,
          reasons  |-> Append(v.reasons, "Ch3:Logic Conflict(" \o Fmt2(s3) \o ")"),
          max_risk |-> Max(v.max_risk, s3)]
    ELSE v

\* Voting with is_fake, reasons and max_risk set once before the loop and not
\* per sample: each sample starts from what the sample before it left
Voting_Carried(s1, s2_raw, s3) ==
    CheckCh3(CheckCh2(CheckCh1([is_fake |-> locals.is_fake, reasons |-> locals.reasons,
                                max_risk |-> locals.max_risk], s1), s2_raw), s3)

\* Voting with the channels checked in the order Ch3, Ch2, Ch1
Voting_Ch3First(s1, s2_raw, s3) ==
    CheckCh1(CheckCh2(CheckCh3([is_fake |-> FALSE, reasons |-> <<>>, max_risk |-> 0],
                               s3), s2_raw), s1)

\* Voting by the mean of the three risks (1 - s2_raw for the low-is-risk
\* channel) instead of the veto
Voting_Mean(s1, s2_raw, s3) ==
    LET v == CheckCh3(CheckCh2(CheckCh1([is_fake |-> FALSE, reasons |-> <<>>,
                                         max_risk |-> 0], s1), s2_raw), s3)
    IN  [v EXCEPT !.is_fake = (s1 + (ONE - s2_raw) + s3) > 3 * HALF]

Voting(s1, s2_raw, s3) ==
    CheckCh3(CheckCh2(CheckCh1([is_fake |-> FALSE, reasons |-> <<>>, max_risk |-> 0],
                               s1), s2_raw), s3)

\* the dict appended to results
ReportRecord(row, v, s1, s2_raw, s3) ==
    [ID         |-> row.ID,
     Image_Path |-> row.Image_Path,
     GT_Label   |-> row.GT_Final_Label,
     Pred_Label |-> IF v.is_fake THEN 1 ELSE 0,
     Risk_Score |-> v.max_risk,
     Reason     |-> IF v.reasons # <<>> THEN JoinReasons(v.reasons) ELSE "Consistent",
     Score_Ch1  |-> Round3(s1),
     Score_Ch2  |-> Round3(s2_raw),
     Score_Ch3  |-> Round3(s3)]

\* rows of the data file (data/create_excel_final.py): ID 041, 001, 011
DataFile ==
    <<[ID |-> "041", Image_Path |-> "data/images/real_noon.jpg",
       Text_Content |-> "{6df1}{591c}{7684}{8857}{9053}{683c}{5916}{5b81}{9759}{ff0c}{6708}{5149}{6d12}{6ee1}{5927}{5730}{3002}",
       GT_Final_Label |-> 1,
       Meta_Time |-> "Day", Meta_Weather |-> "Sunny", Meta_Location |-> "Street",
       Meta_Fact |-> "Noon", Meta_Object |-> "Street"],
      [ID |-> "001", Image_Path |-> "data/images/real_001.jpg",
       Text_Content |-> "{9633}{5149}{660e}{5a9a}{7684}{9646}{5bb6}{5634}{91d1}{878d}{4e2d}{5fc3}{3002}",
       GT_Final_Label |-> 0,
       Meta_Time |-> "Day", Meta_Weather |-> "Sunny", Meta_Location |-> "Shanghai",
       Meta_Fact |-> "Skyscrapers", Meta_Object |-> "Building"],
      [ID |-> "011", Image_Path |-> "data/images/aigc_eraser_001.jpg",
       Text_Content |-> "{8857}{9053}{975e}{5e38}{5e72}{51c0}{ff0c}{6ca1}{6709}{5783}{573e}{3002}",
       GT_Final_Label |-> 1,
       Meta_Time |-> "Day", Meta_Weather |-> "Cloudy", Meta_Location |-> "Street",
       Meta_Fact |-> "Clean", Meta_Object |-> "Road"]>>

MaxSamples == 2

\* df = pd.read_excel(DATA_FILE): MaxSamples rows
df == [i \in 1..MaxSamples |-> DataFile[((i - 1) % Len(DataFile)) + 1]]

\* what a provider may return
Ch1Returns == {0, 5004}
Ch2Returns == {2100, 2200, 9000}
Answers    == {"10", "0"}

\* detect raises, returns (0.0, "[ERROR] File Not Found: ...") for a missing
\* file (detector.py, lines 93-98), or returns a (score, message) tuple or a float
DetectOutcomes ==
    {[kind |-> "raises", ret |-> <<>>],
     [kind |-> "file not found", ret |-> <<0, "[ERROR] File Not Found">>]}
    \cup {[kind |-> "tuple", ret |-> <<x, "message">>] : x \in Ch1Returns}
    \cup {[kind |-> "float", ret |-> <<x>>] : x \in Ch1Returns}
InferenceOutcomes ==
    {[raises |-> TRUE, answer |-> ""]} \cup {[raises |-> FALSE, answer |-> a] : a \in Answers}

\* the outcomes of a call that is made; one of them, which nothing reads, when
\* the call is not made
Drawn(called, outcomes) == IF called THEN outcomes ELSE {CHOOSE o \in outcomes : TRUE}

NoLocals ==
    [image_path |-> None, ch1 |-> "", ch2 |-> "", ch3 |-> "",
     s1 |-> 0, s2_raw |-> 0, s3 |-> 0,
     is_fake |-> FALSE, reasons |-> <<>>, max_risk |-> 0]

\* how each channel's score came about in one iteration
Ch1How(img_path, det) ==
    IF img_path = None \/ ch1_detector = None THEN "skipped"
    ELSE IF det.kind = "raises" THEN "raised"
    ELSE IF det.kind = "file not found" THEN "file not found"
    ELSE "returned"
Ch2How(img_path) ==
    IF img_path = None \/ get_ch2_score = None THEN "skipped" ELSE "returned"
Ch3How(img_path, g1, inf) ==
    IF img_path = None \/ get_logic_score = None THEN "skipped"
    ELSE IF g1.model = None THEN "not loaded"
    ELSE IF inf.raises THEN "raised" ELSE "answered"

\* lines 73-78
StartInference ==
    /\ program = "run_system"
    /\ pc = "start"
    /\ \E data_file_exists \in BOOLEAN :
          pc' = IF data_file_exists THEN "loop" ELSE "returned"
    /\ UNCHANGED <<program, rs_call, rs_return, ch1_detector, get_ch2_score,
                   get_logic_score, model, tokenizer, idx, results, locals,
                   sim_results, reasoner, workers>>

\* one iteration of the loop, lines 87-151, in which no provider call raises
\* out of the loop body
ProcessSample ==
    /\ program = "run_system"
    /\ pc = "loop"
    /\ idx < Len(df)
    /\ \E resolved \in BOOLEAN :
       \E det \in Drawn(resolved /\ ch1_detector # None, DetectOutcomes),
          ch2_ret \in Drawn(resolved /\ get_ch2_score # None, Ch2Returns),
          load \in Drawn(resolved /\ get_logic_score # None /\ model = None,
                         LoadOutcomes),
          inf \in Drawn(resolved /\ get_logic_score # None, InferenceOutcomes) :
          LET row == df[idx + 1]
              img_path == IF resolved THEN row.Image_Path ELSE None
              ch3 == logic_score([model |-> model, tokenizer |-> tokenizer], load, inf)
              called3 == img_path # None /\ get_logic_score # None
              s1 == Ch1Score(img_path, ch1_detector, det)
              s2_raw == Ch2Score(img_path, get_ch2_score, ch2_ret)
              s3 == Ch3Score(img_path, get_logic_score, ch3.score)
              v == Voting(s1, s2_raw, s3)
          IN  /\ model' = IF called3 THEN ch3.globals.model ELSE model
              /\ tokenizer' = IF called3 THEN ch3.globals.tokenizer ELSE tokenizer
              /\ results' = Append(results, ReportRecord(row, v, s1, s2_raw, s3))
              /\ locals' = [image_path |-> img_path,
                            ch1 |-> Ch1How(img_path, det),
                            ch2 |-> Ch2How(img_path),
                            ch3 |-> Ch3How(img_path, ch3.globals, inf),
                            s1 |-> s1, s2_raw |-> s2_raw, s3 |-> s3,
                            is_fake |-> v.is_fake, reasons |-> v.reasons,
                            max_risk |-> v.max_risk]
    /\ idx' = idx + 1
    /\ UNCHANGED <<program, rs_call, rs_return, ch1_detector, get_ch2_score,
                   get_logic_score, pc, sim_results, reasoner, workers>>

\* one iteration in which the image path resolves and get_ch2_score raises:
\* line 108 is in no try block, so the exception leaves run_full_inference with
\* no record appended for the row, no further row read and no report written
ProcessSampleCh2Raises ==
    /\ program = "run_system"
    /\ pc = "loop"
    /\ idx < Len(df)
    /\ get_ch2_score # None
    /\ pc' = "raised"
    /\ UNCHANGED <<program, rs_call, rs_return, ch1_detector, get_ch2_score,
                   get_logic_score, model, tokenizer, idx, results, locals,
                   sim_results, reasoner, workers>>

\* lines 153-164: the report is written
SaveReport ==
    /\ program = "run_system"
    /\ pc = "loop"
    /\ idx = Len(df)
    /\ pc' = "saved"
    /\ UNCHANGED <<program, rs_call, rs_return, ch1_detector, get_ch2_score,
                   get_logic_score, model, tokenizer, idx, results, locals,
                   sim_results, reasoner, workers>>

-----------------------------------------------------------------------------
(* dataset/final_report_genertion.py: simulate_system_inference *)

\* the ground-truth columns of a row
SimRows ==
    [GT_Ch1_Tamper : {0, 1}, GT_Ch2_Mismatch : {0, 1}, GT_Ch3_Logic : {0, 1}]

\* np.random.uniform(lo, hi) takes values in [lo, hi): the ends of the range
Uniform(lo, hi) == {lo, hi - 1}

\* SimRecord with the Ch2 branch of the if/elif chain tested first
SimRecord_Ch2First(row_id, row, p1_score, p2_score) ==
    LET ch1_alarm == IF p1_score > 5000 THEN 1 ELSE 0
        ch2_alarm == IF p2_score < 2500 THEN 1 ELSE 0
        ch3_alarm == IF row.GT_Ch3_Logic = 1 THEN 1 ELSE 0
    IN  [ID             |-> row_id,
         Ch1_Alarm      |-> ch1_alarm,
         Ch2_Alarm      |-> ch2_alarm,
         Ch3_Alarm      |-> ch3_alarm,
         Final_Verdict  |-> IF ch1_alarm = 1 \/ ch2_alarm = 1 \/ ch3_alarm = 1
                            THEN "Fake" ELSE "Real",
         Intercepted_By |-> IF ch2_alarm = 1 THEN "Channel 2 (Semantic)"
                            ELSE IF ch1_alarm = 1 THEN "Channel 1 (Physics)"
                            ELSE IF ch3_alarm = 1 THEN "Channel 3 (Logic)"
                            ELSE "Pass"]

SimRecord(row_id, row, p1_score, p2_score) ==
    LET ch1_alarm == IF p1_score > 5000 THEN 1 ELSE 0
        ch2_alarm == IF p2_score < 2500 THEN 1 ELSE 0
        ch3_alarm == IF row.GT_Ch3_Logic = 1 THEN 1 ELSE 0
    IN  [ID             |-> row_id,
         Ch1_Alarm      |-> ch1_alarm,
         Ch2_Alarm      |-> ch2_alarm,
         Ch3_Alarm      |-> ch3_alarm,
         Final_Verdict  |-> IF ch1_alarm = 1 \/ ch2_alarm = 1 \/ ch3_alarm = 1
                            THEN "Fake" ELSE "Real",
         Intercepted_By |-> IF ch1_alarm = 1 THEN "Channel 1 (Physics)"
                            ELSE IF ch2_alarm = 1 THEN "Channel 2 (Semantic)"
                            ELSE IF ch3_alarm = 1 THEN "Channel 3 (Logic)"
                            ELSE "Pass"]

\* lines 10-18
SimStart ==
    /\ program = "final_report"
    /\ pc = "start"
    /\ \E readable \in BOOLEAN : pc' = IF readable THEN "loop" ELSE "returned"
    /\ UNCHANGED <<program, rs_call, rs_return, ch1_detector, get_ch2_score,
                   get_logic_score, model, tokenizer, idx, results, locals,
                   sim_results, reasoner, workers>>

\* one iteration of the loop, lines 21-71
SimulateSample ==
    /\ program = "final_report"
    /\ pc = "loop"
    /\ idx < MaxSamples
    /\ \E row \in SimRows :
       \E p1_score \in (IF row.GT_Ch1_Tamper = 1 THEN Uniform(8000, 10000)
                        ELSE Uniform(0, 1000)),
          p2_score \in (IF row.GT_Ch2_Mismatch = 1 THEN Uniform(0, 2000)
                        ELSE Uniform(8000, 10000)) :
          /\ sim_results' = Append(sim_results, SimRecord(idx + 1, row, p1_score, p2_score))
          /\ locals' = [p1_score |-> p1_score, p2_score |-> p2_score]
    /\ idx' = idx + 1
    /\ UNCHANGED <<program, rs_call, rs_return, ch1_detector, get_ch2_score,
                   get_logic_score, model, tokenizer, pc, results, reasoner, workers>>

\* lines 73-116: the statistics are printed and the log is written
SimSave ==
    /\ program = "final_report"
    /\ pc = "loop"
    /\ idx = MaxSamples
    /\ pc' = "saved"
    /\ UNCHANGED <<program, rs_call, rs_return, ch1_detector, get_ch2_score,
                   get_logic_score, model, tokenizer, idx, results, locals,
                   sim_results, reasoner, workers>>

-----------------------------------------------------------------------------

\* the imports of run_system.py (lines 21-42) leave each interface loaded or None
Loaded(name) == {None, name}

Init ==
    /\ program \in {"reasoner", "reasoner_workers", "interface", "interface_workers",
                    "run_system", "final_report"}
    /\ IF program = "reasoner"
       THEN rs_call \in {<<[image_path |-> i, text |-> t, meta_data |-> m]>> :
                            i \in ImagePaths, t \in Texts, m \in Metas}
                        \cup {<<[image_path |-> "data/images/logic_001.jpg",
                                 text |-> c.text, meta_data |-> c.meta_data]>> :
                                 c \in SuiteCalls}
       ELSE rs_call = <<>>
    /\ rs_return = <<>>
    /\ IF program = "run_system"
       THEN /\ ch1_detector \in Loaded("ch1_detector")
            /\ get_ch2_score \in Loaded("get_ch2_score")
            /\ get_logic_score \in Loaded("get_logic_score")
       ELSE /\ ch1_detector = None
            /\ get_ch2_score = None
            /\ get_logic_score = None
    /\ model = None
    /\ tokenizer = None
    /\ pc = "start"
    /\ idx = 0
    /\ results = <<>>
    /\ locals = NoLocals
    /\ sim_results = <<>>
    /\ reasoner = IF program \in {"reasoner", "reasoner_workers"}
                  THEN LogicReasoner ELSE None
    /\ workers = [w \in Workers |-> Idle]

Next ==
    \/ CheckLogic
    \/ \E w \in Workers : WorkerCall(w)
    \/ \E w \in Workers : WorkerCaption(w)
    \/ \E w \in Workers : WorkerReturn(w)
    \/ GetLogicScore
    \/ \E w \in Workers : ScoreCall(w)
    \/ \E w \in Workers : InitCheck(w)
    \/ \E w \in Workers : LoadModel(w)
    \/ \E w \in Workers : LoadTokenizer(w)
    \/ \E w \in Workers : ModelEval(w)
    \/ \E w \in Workers : ScoreCheck(w)
    \/ \E w \in Workers : Inference(w)
    \/ StartInference
    \/ ProcessSample
    \/ ProcessSampleCh2Raises
    \/ SaveReport
    \/ SimStart
    \/ SimulateSample
    \/ SimSave

Spec == Init /\ [][Next]_vars

-----------------------------------------------------------------------------
(* Properties of the fusion step *)

\* run_full_inference has completed at least one iteration; Last is its record
Processed == program = "run_system" /\ Len(results) > 0
Last == results[Len(results)]

\* the channel's branch of the voting logic was taken in the last iteration
Alarmed(ch) ==
    \E i \in 1..Len(locals.reasons) : StartsWith(locals.reasons[i], ch \o ":")

\* the alarms as the thresholds 0.5, 0.22 and 0.5 define them
Alarm1 == locals.s1 > 5000
Alarm2 == locals.s2_raw < 2200
Alarm3 == locals.s3 > 5000

Simulated == program = "final_report" /\ Len(sim_results) > 0
Last_sim == sim_results[Len(sim_results)]

\* C1: the verdict is risk exactly when at least one channel alarms, in
\* run_full_inference (Pred_Label = 1) and in simulate_system_inference
\* (Final_Verdict = "Fake"); nothing but the three alarms enters the decision.
C1_VetoIsOr ==
    /\ Processed =>
          /\ (Last.Pred_Label = 1) <=> (Alarm1 \/ Alarm2 \/ Alarm3)
          /\ Last.Pred_Label \in {0, 1}
    /\ Simulated =>
          \A i \in 1..Len(sim_results) :
             LET r == sim_results[i]
             IN  (r.Final_Verdict = "Fake")
                    <=> (r.Ch1_Alarm = 1 \/ r.Ch2_Alarm = 1 \/ r.Ch3_Alarm = 1)

\* only Ch1 alarms, just above its threshold, and the other two scores are as
\* far inside the safe zone as the inputs go: the verdict is risk
C1_Witness ==
    /\ Processed
    /\ locals.s1 = 5004 /\ locals.s2_raw = 9000 /\ locals.s3 = 0
    /\ Last.Pred_Label = 1

MaxOf(S) == CHOOSE x \in S : \A y \in S : y <= x

\* C6, as claimed: Risk_Score is the maximum of the raw scores of the alarming
\* channels, 0.0 when none alarms; it is the Ch2 raw score when only Ch2 alarms.
C6_RawMaximum ==
    Processed =>
        Last.Risk_Score =
            MaxOf({0} \cup (IF Alarm1 THEN {locals.s1} ELSE {})
                      \cup (IF Alarm2 THEN {locals.s2_raw} ELSE {})
                      \cup (IF Alarm3 THEN {locals.s3} ELSE {}))

\* C6, amended: Risk_Score is the maximum, over the alarming channels, of the
\* raw score for Ch1 and Ch3 and of the fixed risk 0.9 for Ch2; 0.0 when none
\* alarms.
C6_RiskScore ==
    Processed =>
        Last.Risk_Score =
            MaxOf({0} \cup (IF Alarm1 THEN {locals.s1} ELSE {})
                      \cup (IF Alarm2 THEN {9000} ELSE {})
                      \cup (IF Alarm3 THEN {locals.s3} ELSE {}))

\* only Ch2 alarms: Risk_Score is 0.9, not the raw score 0.21
C6_Witness ==
    /\ Processed
    /\ Alarm2 /\ ~Alarm1 /\ ~Alarm3
    /\ locals.s2_raw = 2100
    /\ Last.Risk_Score = 9000

\* C7: in every record of simulate_system_inference, Intercepted_By names the
\* first alarming channel in the order Ch1, Ch2, Ch3 and is "Pass" exactly when
\* none alarms; the verdict is the OR of the alarms whichever channel is named.
C7_InterceptedBy ==
    Simulated =>
        \A i \in 1..Len(sim_results) :
           LET r == sim_results[i]
               first == IF r.Ch1_Alarm = 1 THEN "Channel 1 (Physics)"
                        ELSE IF r.Ch2_Alarm = 1 THEN "Channel 2 (Semantic)"
                        ELSE IF r.Ch3_Alarm = 1 THEN "Channel 3 (Logic)"
                        ELSE "Pass"
           IN  /\ r.Intercepted_By = first
               /\ (r.Intercepted_By = "Pass")
                     <=> (r.Ch1_Alarm = 0 /\ r.Ch2_Alarm = 0 /\ r.Ch3_Alarm = 0)
               /\ (r.Final_Verdict = "Fake") <=> (r.Intercepted_By # "Pass")

\* all three channels alarm and the first in priority is named
C7_Witness ==
    /\ Simulated
    /\ \E i \in 1..Len(sim_results) :
          /\ sim_results[i].Ch1_Alarm = 1
          /\ sim_results[i].Ch2_Alarm = 1
          /\ sim_results[i].Ch3_Alarm = 1
          /\ sim_results[i].Intercepted_By = "Channel 1 (Physics)"
          /\ sim_results[i].Final_Verdict = "Fake"

-----------------------------------------------------------------------------
(* Properties of the channel defaults and of the batch loop *)

\* the channel produced no score of its own in the last iteration
Unavailable1 == locals.ch1 \in {"skipped", "raised", "file not found"}
Unavailable2 == locals.ch2 = "skipped"
Unavailable3 == locals.ch3 \in {"skipped", "not loaded", "raised"}

\* C4, as claimed: a channel whose score is unavailable gets the score 0.0,
\* which does not alarm on that channel.
C4_DefaultIsZero ==
    Processed =>
        /\ Unavailable1 => locals.s1 = 0 /\ ~Alarmed("Ch1")
        /\ Unavailable2 => locals.s2_raw = 0 /\ ~Alarmed("Ch2")
        /\ Unavailable3 => locals.s3 = 0 /\ ~Alarmed("Ch3")

\* C4, amended: an unavailable channel gets a default that does not alarm on
\* it: 0.0 for Ch1 when the call is not made or the file is missing and 0.5
\* when the detector raises, 0.3 for Ch2, 0.0 for Ch3 when the call is not made
\* and 0.5 when the model cannot be loaded or the inference raises.  A sample
\* whose other channels do not alarm stays safe, and a sample with every
\* channel unavailable is safe with Risk_Score 0 and Reason "Consistent".
C4_FailOpen ==
    Processed =>
        /\ locals.ch1 \in {"skipped", "file not found"} => locals.s1 = 0
        /\ locals.ch1 = "raised" => locals.s1 = 5000
        /\ locals.ch2 = "skipped" => locals.s2_raw = 3000
        /\ locals.ch3 = "skipped" => locals.s3 = 0
        /\ locals.ch3 \in {"not loaded", "raised"} => locals.s3 = 5000
        /\ Unavailable1 => ~Alarmed("Ch1")
        /\ Unavailable2 => ~Alarmed("Ch2")
        /\ Unavailable3 => ~Alarmed("Ch3")
        /\ (Unavailable1 /\ ~Alarmed("Ch2") /\ ~Alarmed("Ch3")) => Last.Pred_Label = 0
        /\ (Unavailable2 /\ ~Alarmed("Ch1") /\ ~Alarmed("Ch3")) => Last.Pred_Label = 0
        /\ (Unavailable3 /\ ~Alarmed("Ch1") /\ ~Alarmed("Ch2")) => Last.Pred_Label = 0
        /\ (Unavailable1 /\ Unavailable2 /\ Unavailable3) =>
              /\ Last.Pred_Label = 0
              /\ Last.Risk_Score = 0
              /\ Last.Reason = "Consistent"

\* the detector raises, get_ch2_score is not loaded and the Ch3 model cannot
\* be loaded: the three defaults are 0.5, 0.3 and 0.5 and the sample is safe
C4_Witness ==
    /\ Processed
    /\ locals.ch1 = "raised" /\ locals.ch2 = "skipped" /\ locals.ch3 = "not loaded"
    /\ locals.s1 = 5000 /\ locals.s2_raw = 3000 /\ locals.s3 = 5000
    /\ Last.Pred_Label = 0

\* C5: no provider failure on a sample leaves run_full_inference: the loop
\* goes on, one record is appended for each row read, and the report is
\* written with a record for every row of the data file.
C5_BatchNeverAborts ==
    program = "run_system" =>
        /\ pc # "raised"
        /\ Len(results) = idx
        /\ pc = "saved" => Len(results) = Len(df)

\* C9: the Ch3 alarm of a sample is raised exactly when check_logic finds a
\* conflict between the sample's Meta_* attributes and its text, and Score_Ch3
\* is that alarm as 0 or 1.
C9_Ch3IsRuleEngine ==
    Processed =>
        LET row     == df[idx]
            finding == check_logic(row.Image_Path, row.Text_Content, row)
        IN  /\ Alarmed("Ch3") <=> finding.conflict_detected
            /\ Last.Score_Ch3 = IF finding.conflict_detected THEN ONE ELSE 0

-----------------------------------------------------------------------------
(* Properties of the rule engine *)

Returned == program = "reasoner" /\ Len(rs_return) = 1

\* the normalised locals of the call made
CallN == locals

NoFinding == [conflict_detected |-> FALSE, reason |-> CONSISTENT]

\* a rule of the category is satisfied by the attributes and the text
Matches(category, n) ==
    CASE category = "Temporal"       -> RuleA(NoFinding, n).conflict_detected
      [] category = "Weather"        -> RuleB(NoFinding, n).conflict_detected
      [] category = "Geolocation"    -> RuleC(NoFinding, n).conflict_detected
      [] category = "Fact"           -> RuleD(NoFinding, n).conflict_detected
      [] category = "State/OCR"      -> RuleG(NoFinding, n).conflict_detected
      [] category = "Polysemy"       -> RuleH(NoFinding, n).conflict_detected
      [] category = "Manual Trigger" -> RuleE(NoFinding, n).conflict_detected

\* the reason returned belongs to the category
ReasonIn(category) ==
    StartsWith(rs_return[1].reason, "[CONFLICT] " \o category \o ":")

\* the result reports the earliest category of the order that is satisfied,
\* and no conflict when none is
ReportsEarliest(order) ==
    LET sat == {i \in 1..Len(order) : Matches(order[i], CallN)}
    IN  IF sat = {}
        THEN ~rs_return[1].conflict_detected /\ rs_return[1].reason = CONSISTENT
        ELSE /\ rs_return[1].conflict_detected
             /\ ReasonIn(order[CHOOSE i \in sat : \A j \in sat : i <= j])

\* C2, as claimed: the categories are evaluated in the order Temporal, Weather,
\* Geospatial/Entity, Quantity/Fact, State/Provenance, Topic/Polysemy,
\* Manual-Trigger, so Manual-Trigger is reported only when no State/Provenance
\* and no Topic/Polysemy rule matches.
C2_ManualTriggerLast ==
    Returned =>
        /\ ReportsEarliest(<<"Temporal", "Weather", "Geolocation", "Fact",
                             "State/OCR", "Polysemy", "Manual Trigger">>)
        /\ ReasonIn("Manual Trigger") =>
              ~Matches("State/OCR", CallN) /\ ~Matches("Polysemy", CallN)

\* C2, amended: the categories are evaluated in the order Temporal, Weather,
\* Geospatial/Entity, Quantity/Fact, Manual-Trigger, State/Provenance,
\* Topic/Polysemy: the reason belongs to the earliest satisfied category of
\* that order, so State/Provenance and Topic/Polysemy are reported only when
\* the text holds no trigger keyword.
C2_CategoryOrder ==
    Returned =>
        /\ ReportsEarliest(<<"Temporal", "Weather", "Geolocation", "Fact",
                             "Manual Trigger", "State/OCR", "Polysemy">>)
        /\ (ReasonIn("State/OCR") \/ ReasonIn("Polysemy")) =>
              ~Matches("Manual Trigger", CallN)

\* a State/OCR rule and the Manual Trigger rule are both satisfied and the
\* reason is the Manual Trigger one
C2_Witness ==
    /\ Returned
    /\ Matches("State/OCR", CallN)
    /\ Matches("Manual Trigger", CallN)
    /\ rs_return[1].reason = "[CONFLICT] Manual Trigger: 'conflict_test' detected"

\* the Time attribute of the call, compared case-insensitively
TimeIs(t) == lower(strip(Get(rs_call[1].meta_data, "Meta_Time", "Unknown"))) = t

TextHasAny(kws) ==
    \E i \in 1..Len(kws) : Contains(lower(rs_call[1].text), kws[i])

\* C3: with Time equal to Day and a night keyword in the text, or Time equal
\* to Night and a day keyword in the text, the result is a conflict with a
\* Temporal reason, whatever the other attributes are and whichever later rule
\* is also satisfied.
C3_TemporalFirst ==
    (/\ Returned
     /\ \/ TimeIs("day") /\ TextHasAny(night_keywords)
        \/ TimeIs("night") /\ TextHasAny(day_keywords))
    => /\ rs_return[1].conflict_detected
       /\ ReasonIn("Temporal")

\* Time is Day, the weather is Sunny and the text holds a night keyword and a
\* storm keyword: the Weather rule is satisfied too and the reason is Temporal
C3_Witness ==
    /\ Returned
    /\ TimeIs("day") /\ TextHasAny(night_keywords)
    /\ Matches("Weather", CallN)
    /\ rs_return[1].reason
          = "[CONFLICT] Temporal: Image shows 'Day' (day) vs Text mentions 'night'"

\* no attribute satisfies the visual condition of any attribute-based rule
NoVisualCondition(n) ==
    /\ n.img_time_norm \notin {"day", "night"}
    /\ ~sunny_scene(n) /\ ~snow_scene(n) /\ ~rain_scene(n)
    /\ \A landmarks \in {paris_landmarks, tokyo_landmarks, shanghai_landmarks,
                         sydney_landmarks, london_bridge} :
          ~AnyIn(landmarks, n.img_objects_norm, n.img_location_norm)
    /\ ~empty_scene(n) /\ ~crowded_scene(n)
    /\ \A i \in 1..Len(state_conflicts) :
          /\ ~Contains(n.img_fact_norm, state_conflicts[i][1])
          /\ ~Contains(n.img_objects_norm, state_conflicts[i][1])
    /\ n.img_topic_norm \notin (animal_topics \cup object_topics)

\* C10, as claimed: when no attribute satisfies a rule's visual condition the
\* result is no conflict, for every text.
C10_NoConditionNoConflict ==
    (Returned /\ NoVisualCondition(CallN)) => ~rs_return[1].conflict_detected

\* C10, amended: when no attribute satisfies a rule's visual condition and the
\* text holds no Manual Trigger keyword, the result is no conflict with the
\* consistent reason; with a trigger keyword it is a Manual Trigger conflict.
C10_NoConditionNoTrigger ==
    (Returned /\ NoVisualCondition(CallN)) =>
        IF TextHasAny(trigger_keywords)
        THEN rs_return[1].conflict_detected /\ ReasonIn("Manual Trigger")
        ELSE ~rs_return[1].conflict_detected /\ rs_return[1].reason = CONSISTENT

\* the weather is Cloudy, every other attribute is Unknown, the text holds a
\* storm keyword and a crowded keyword, and the result is no conflict
C10_Witness ==
    /\ Returned
    /\ NoVisualCondition(CallN)
    /\ CallN.img_weather_norm = "cloudy"
    /\ rs_call[1].text = "storm crowded"
    /\ ~rs_return[1].conflict_detected

-----------------------------------------------------------------------------
(* Properties of the single rules *)

\* the text of the call holds the keyword, as written
TextHolds(kw) == Contains(rs_call[1].text, kw)

\* no rule of a category evaluated before Rule E is satisfied
NothingBeforeManual ==
    \A c \in {"Temporal", "Weather", "Geolocation", "Fact"} : ~Matches(c, CallN)

\* C11: for every text that holds one of the four trigger keywords the result
\* is a conflict, whatever the attributes are; when no Temporal, Weather,
\* Geospatial or Quantity/Fact rule is satisfied the reason is the Manual
\* Trigger one, naming the first trigger keyword found.
C11_ManualTrigger ==
    (Returned /\ \E i \in 1..Len(trigger_keywords) : TextHolds(trigger_keywords[i]))
    => /\ rs_return[1].conflict_detected
       /\ NothingBeforeManual =>
             rs_return[1].reason =
                "[CONFLICT] Manual Trigger: '"
                \o FirstHit(trigger_keywords, lower(rs_call[1].text)) \o "' detected"

\* every attribute is Unknown, the text is the first trigger keyword, and the
\* result is a Manual Trigger conflict
C11_Witness ==
    /\ Returned
    /\ rs_call[1].meta_data = UnknownMeta
    /\ rs_call[1].text = "{903b}{8f91}{9519}{8bef}"
    /\ rs_return[1] = Found("[CONFLICT] Manual Trigger: '{903b}{8f91}{9519}{8bef}' detected")


\* every conditional of the rules, in the order of the function body, as the
\* condition under which it would fire on its own and the reason it renders
Branch(fires, reason) == [fires |-> fires, reason |-> IF fires THEN reason ELSE ""]

Branches(n) ==
    LET t == n.text_norm
        night_hit   == FirstHit(night_keywords, t)
        day_hit     == FirstHit(day_keywords, t)
        storm_hit   == FirstHitLower(storm_keywords, t)
        snow_hit    == FirstHitLower(snow_keywords, t)
        summer_hit  == FirstHitLower(summer_keywords, t)
        sunny_hit   == FirstHitLower(sunny_keywords, t)
        crowded_hit == FirstHitLower(crowded_keywords, t)
        empty_hit   == FirstHitLower(empty_keywords, t)
        trigger_hit == FirstHit(trigger_keywords, t)
        finance_hit == FirstHit(finance_kws, t)
        crash_hit   == FirstHit(crash_kws, t)
        geo(landmarks, wrong, shown) ==
            LET matched_city == FirstHit(wrong, t)
            IN  Branch(/\ AnyIn(landmarks, n.img_objects_norm, n.img_location_norm)
                       /\ matched_city # None,
                       "[CONFLICT] Geolocation: Image shows " \o shown \o " vs Text '"
                       \o matched_city \o "'")
        state(i) ==
            Branch(StateEntryHit(i, n),
                   "[CONFLICT] State/OCR: Image '" \o state_conflicts[i][1]
                   \o "' vs Text '" \o FirstHitLower(state_conflicts[i][2], t) \o "'")
    IN  << Branch(n.img_time_norm = "day" /\ night_hit # None,
                  "[CONFLICT] Temporal: Image shows '" \o n.img_time
                  \o "' (day) vs Text mentions '" \o night_hit \o "'"),
           Branch(n.img_time_norm = "night" /\ day_hit # None,
                  "[CONFLICT] Temporal: Image shows '" \o n.img_time
                  \o "' (night) vs Text mentions '" \o day_hit \o "'"),
           Branch(sunny_scene(n) /\ storm_hit # None,
                  "[CONFLICT] Weather: Image '" \o n.img_weather
                  \o "' (sunny/clear) vs Text '" \o storm_hit \o "'"),
           Branch(sunny_scene(n) /\ snow_hit # None,
                  "[CONFLICT] Weather: Image '" \o n.img_weather
                  \o "' (sunny) vs Text '" \o snow_hit \o "'"),
           Branch(snow_scene(n) /\ summer_hit # None,
                  "[CONFLICT] Weather: Image '" \o n.img_weather
                  \o "' (snow) vs Text '" \o summer_hit \o "'"),
           Branch(rain_scene(n) /\ sunny_hit # None,
                  "[CONFLICT] Weather: Image '" \o n.img_weather
                  \o "' (rain) vs Text '" \o sunny_hit \o "'"),
           geo(paris_landmarks, wrong_cities_for_paris, "Paris/Eiffel Tower"),
           geo(tokyo_landmarks, wrong_cities_for_tokyo, "Tokyo"),
           geo(shanghai_landmarks, wrong_cities_for_shanghai, "Shanghai"),
           geo(sydney_landmarks, wrong_cities_for_sydney, "Sydney"),
           geo(london_bridge, golden_gate, "London Bridge"),
           Branch(empty_scene(n) /\ crowded_hit # None,
                  "[CONFLICT] Fact: Image '" \o n.img_fact \o "' (empty) vs Text '"
                  \o crowded_hit \o "'"),
           Branch(crowded_scene(n) /\ empty_hit # None,
                  "[CONFLICT] Fact: Image '" \o n.img_fact \o "' (crowded) vs Text '"
                  \o empty_hit \o "'"),
           Branch(trigger_hit # None,
                  "[CONFLICT] Manual Trigger: '" \o trigger_hit \o "' detected") >>
        \o [i \in 1..Len(state_conflicts) |-> state(i)]
        \o << Branch(n.img_topic_norm \in animal_topics /\ finance_hit # None,
                     "[CONFLICT] Polysemy: Image real animal vs Text finance '"
                     \o finance_hit \o "'"),
              Branch(n.img_topic_norm \in object_topics /\ crash_hit # None,
                     "[CONFLICT] Polysemy: Image physical object vs Text economic '"
                     \o crash_hit \o "'") >>

\* the branches of the table that would fire
Firing(br) == {i \in 1..Len(br) : br[i].fires}

\* the findings after each rule of the function body, from the initial one
Trace(n) ==
    LET a == RuleA(NoFinding, n)
        b == RuleB(a, n)
        c == RuleC(b, n)
        d == RuleD(c, n)
        e == RuleE(d, n)
        g == RuleG(e, n)
        h == RuleH(g, n)
    IN  <<NoFinding, a, b, c, d, e, g, h, RuleF(h, n)>>

\* C12: at most one rule sets the finding: once a rule has set the conflict
\* flag no later rule changes the flag or the reason, and the result returned
\* is the reason rendered by the first branch, in evaluation order, whose
\* condition holds (the consistent result when none holds).
C12_FirstMatchWins ==
    Returned =>
        LET tr == Trace(CallN)
            br == Branches(CallN)
            f  == Firing(br)
        IN  /\ \A k \in 1..(Len(tr) - 1) : tr[k].conflict_detected => tr[k + 1] = tr[k]
            /\ Cardinality({k \in 1..(Len(tr) - 1) : tr[k + 1] # tr[k]}) <= 1
            /\ rs_return[1] = tr[Len(tr)]
            /\ rs_return[1] =
                  IF f = {} THEN NoFinding
                  ELSE Found(br[CHOOSE i \in f : \A j \in f : i <= j].reason)

\* the weather is Sunny and the text holds a storm and a snow keyword: two
\* branches of the Weather rule would fire and the reason is the first one's
C12_Witness ==
    /\ Returned
    /\ rs_call[1].text = "storm snow"
    /\ rs_return[1].reason
          = "[CONFLICT] Weather: Image 'Sunny' (sunny/clear) vs Text 'storm'"
    /\ Cardinality(Firing(Branches(CallN))) = 2


\* the metadata record with the literal Unknown in place of each absent key
Filled(meta) == [k \in MetaKeys |-> IF k \in DOMAIN meta THEN meta[k] ELSE "Unknown"]

\* C13: whichever of the six metadata keys are absent from the record, the
\* call returns a (conflict, reason) pair, and the pair is the one returned for
\* the record in which the absent keys hold the literal value Unknown.
C13_MissingIsUnknown ==
    Returned =>
        /\ rs_return[1].conflict_detected \in BOOLEAN
        /\ rs_return[1] = check_logic(rs_call[1].image_path, rs_call[1].text,
                                      Filled(rs_call[1].meta_data))
        /\ DOMAIN rs_call[1].meta_data = {} =>
              rs_return[1] = check_logic(rs_call[1].image_path, rs_call[1].text,
                                         UnknownMeta)

\* only Meta_Fact is present, the text holds a crowd keyword, and the Fact
\* conflict is found with the five other keys absent
C13_Witness ==
    /\ Returned
    /\ DOMAIN rs_call[1].meta_data = {"Meta_Fact"}
    /\ rs_call[1].text = "crowded"
    /\ rs_return[1] = Found("[CONFLICT] Fact: Image 'Empty' (empty) vs Text 'crowded'")


Categories == {"Temporal", "Weather", "Geolocation", "Fact", "Manual Trigger",
               "State/OCR", "Polysemy"}

\* C14: when no rule of any category is satisfied the result is no conflict
\* with the one constant message; every result without conflict carries that
\* message; all-Unknown attributes with a text holding no configured keyword
\* give exactly this result.
C14_ConsistentMessage ==
    Returned =>
        /\ (\A c \in Categories : ~Matches(c, CallN)) =>
              /\ ~rs_return[1].conflict_detected
              /\ rs_return[1].reason
                    = "[CONSISTENT] Visual evidence aligns with text description"
        /\ ~rs_return[1].conflict_detected =>
              rs_return[1].reason
                 = "[CONSISTENT] Visual evidence aligns with text description"
        /\ (Filled(rs_call[1].meta_data) = UnknownMeta /\ rs_call[1].text = "hello") =>
              ~rs_return[1].conflict_detected

\* every attribute is Unknown, the text is "hello", the file is named logic_*,
\* and the result is the consistent one
C14_Witness ==
    /\ Returned
    /\ rs_call[1].meta_data = UnknownMeta
    /\ rs_call[1].text = "hello"
    /\ rs_call[1].image_path = "data/images/logic_001.jpg"
    /\ rs_return[1] = [conflict_detected |-> FALSE,
                       reason |-> "[CONSISTENT] Visual evidence aligns with text description"]


\* a keyword of the list occurs in the case-folded text of the call
TextHas(kws) == \E i \in 1..Len(kws) : Contains(lower(rs_call[1].text), lower(kws[i]))

\* the image weather of the call holds one of the tokens
WeatherHas(tokens) ==
    \E k \in tokens :
        Contains(lower(strip(Get(rs_call[1].meta_data, "Meta_Weather", "Unknown"))), k)

SunnyWeather == WeatherHas({"sunny", "clear", "{6674}"})
SnowWeather  == WeatherHas({"snow", "{96ea}", "winter"})
RainWeather  == WeatherHas({"rain", "{96e8}", "storm"})

\* C15, as claimed: when no Temporal rule matched, a Snow image weather with a
\* summer/hot keyword or a rain keyword in the text is a conflict (as are
\* Sunny/Clear with a storm or snow keyword and Rain with a sunny keyword).
C15_SnowAgainstRain ==
    (Returned /\ ~Matches("Temporal", CallN)) =>
        /\ (SunnyWeather /\ (TextHas(storm_keywords) \/ TextHas(snow_keywords)))
              => rs_return[1].conflict_detected
        /\ (SnowWeather /\ (TextHas(summer_keywords) \/ TextHas(storm_keywords)))
              => rs_return[1].conflict_detected
        /\ (RainWeather /\ TextHas(sunny_keywords)) => rs_return[1].conflict_detected

\* C15, amended: when no Temporal rule matched, the Weather rule has four
\* branches tried in this order, each only while no earlier one matched:
\* Sunny/Clear against a storm keyword, Sunny/Clear against a snow keyword,
\* Snow against a summer/hot keyword, Rain against a sunny keyword.  The result
\* is then a conflict with the Weather reason of the first branch satisfied,
\* and a Weather reason is returned in no other case: a Snow weather with a
\* rain or storm keyword alone is no Weather conflict.
C15_WeatherBranches ==
    (Returned /\ ~Matches("Temporal", CallN)) =>
        LET w  == CallN.img_weather
            t  == CallN.text_norm
            b1 == SunnyWeather /\ TextHas(storm_keywords)
            b2 == SunnyWeather /\ TextHas(snow_keywords)
            b3 == SnowWeather /\ TextHas(summer_keywords)
            b4 == RainWeather /\ TextHas(sunny_keywords)
        IN  IF b1 THEN rs_return[1] =
                    Found("[CONFLICT] Weather: Image '" \o w \o "' (sunny/clear) vs Text '"
                          \o FirstHitLower(storm_keywords, t) \o "'")
            ELSE IF b2 THEN rs_return[1] =
                    Found("[CONFLICT] Weather: Image '" \o w \o "' (sunny) vs Text '"
                          \o FirstHitLower(snow_keywords, t) \o "'")
            ELSE IF b3 THEN rs_return[1] =
                    Found("[CONFLICT] Weather: Image '" \o w \o "' (snow) vs Text '"
                          \o FirstHitLower(summer_keywords, t) \o "'")
            ELSE IF b4 THEN rs_return[1] =
                    Found("[CONFLICT] Weather: Image '" \o w \o "' (rain) vs Text '"
                          \o FirstHitLower(sunny_keywords, t) \o "'")
            ELSE ~ReasonIn("Weather")

\* the weather is "Rain and Snow" and the text holds a summer and a sunny
\* keyword: the Snow branch and the Rain branch are satisfied, and the Snow
\* one, which comes first, is reported
C15_Witness ==
    /\ Returned
    /\ rs_call[1].text = "hot sunny"
    /\ SnowWeather /\ RainWeather
    /\ rs_return[1] = Found("[CONFLICT] Weather: Image 'Rain and Snow' (snow) vs Text 'hot'")


\* the landmark table: <<entity tokens, wrong-entity tokens, name in the reason>>
GeoTable ==
    << <<paris_landmarks, wrong_cities_for_paris, "Paris/Eiffel Tower">>,
       <<tokyo_landmarks, wrong_cities_for_tokyo, "Tokyo">>,
       <<shanghai_landmarks, wrong_cities_for_shanghai, "Shanghai">>,
       <<sydney_landmarks, wrong_cities_for_sydney, "Sydney">>,
       <<london_bridge, golden_gate, "London Bridge">> >>

\* an entity token of the entry is in Objects or Location
EntityShown(e, n) ==
    \E i \in 1..Len(GeoTable[e][1]) :
        \/ Contains(n.img_objects_norm, GeoTable[e][1][i])
        \/ Contains(n.img_location_norm, GeoTable[e][1][i])

\* a wrong-entity token of the entry is in the text
WrongEntityInText(e, n) ==
    \E i \in 1..Len(GeoTable[e][2]) : Contains(n.text_norm, GeoTable[e][2][i])

\* C16: when no Temporal or Weather rule matched, every entry of the landmark
\* table whose entity token is in Objects or Location and whose wrong-entity
\* token is in the text makes the result a conflict with a Geospatial reason:
\* the reason of the first such entry, whether or not an earlier entry's
\* entity token is shown.
C16_Geospatial ==
    Returned =>
        LET n   == CallN
            sat == {e \in 1..Len(GeoTable) : EntityShown(e, n) /\ WrongEntityInText(e, n)}
        IN  (~Matches("Temporal", n) /\ ~Matches("Weather", n)) =>
               IF sat = {} THEN ~ReasonIn("Geolocation")
               ELSE LET e == CHOOSE x \in sat : \A y \in sat : x <= y
                    IN  rs_return[1] =
                           Found("[CONFLICT] Geolocation: Image shows " \o GeoTable[e][3]
                                 \o " vs Text '" \o FirstHit(GeoTable[e][2], n.text_norm)
                                 \o "'")

\* Location is Paris and Objects is Tokyo Tower; the text names Shanghai, which
\* is wrong for Tokyo and not for Paris: the Paris entry's entity is shown, it
\* does not fire, and the Tokyo entry does
C16_Witness ==
    /\ Returned
    /\ rs_call[1].text = "shanghai"
    /\ EntityShown(1, CallN) /\ ~WrongEntityInText(1, CallN)
    /\ rs_return[1] = Found("[CONFLICT] Geolocation: Image shows Tokyo vs Text 'shanghai'")


AnimalTags == {"animal", "living animal", "{52a8}{7269}", "{751f}{7269}"}
ObjectTags == {"sports", "object", "soap bubble", "{4f53}{80b2}", "{7269}{4f53}",
               "{6ce1}{6ce1}"}

\* the tag appears in Topic, in Fact or in Objects
InCombinedView(tags, n) ==
    \E tag \in tags : \/ Contains(n.img_topic_norm, tag)
                      \/ Contains(n.img_fact_norm, tag)
                      \/ Contains(n.img_objects_norm, tag)

NoOtherCategory(n) == \A c \in Categories \ {"Polysemy"} : ~Matches(c, n)

\* C17, as claimed: when no other category matched and an animal (resp.
\* physical-object) tag appears in any of Topic, Fact or Objects while the text
\* holds a finance (resp. crash) keyword, the result is a Topic/Polysemy
\* conflict.
C17_CombinedView ==
    Returned =>
        LET n == CallN
        IN  NoOtherCategory(n) =>
               /\ (InCombinedView(AnimalTags, n) /\ TextHas(finance_kws))
                     => rs_return[1].conflict_detected /\ ReasonIn("Polysemy")
               /\ (InCombinedView(ObjectTags, n) /\ TextHas(crash_kws))
                     => rs_return[1].conflict_detected /\ ReasonIn("Polysemy")

\* C17, amended: the Topic rule reads the Topic attribute alone and compares
\* it, case-folded, for equality with the tags: when no other category
\* matched, Topic equal to an animal tag with a finance keyword in the text, or
\* else Topic equal to a physical-object tag with a crash keyword in the text,
\* is a Topic/Polysemy conflict, and nothing else is: a tag in Fact or in
\* Objects, or a Topic that only contains a tag, gives no conflict.
C17_TopicOnly ==
    Returned =>
        LET n == CallN
        IN  NoOtherCategory(n) =>
               IF n.img_topic_norm \in AnimalTags /\ TextHas(finance_kws)
               THEN rs_return[1] =
                       Found("[CONFLICT] Polysemy: Image real animal vs Text finance '"
                             \o FirstHit(finance_kws, n.text_norm) \o "'")
               ELSE IF n.img_topic_norm \in ObjectTags /\ TextHas(crash_kws)
               THEN rs_return[1] =
                       Found("[CONFLICT] Polysemy: Image physical object vs Text economic '"
                             \o FirstHit(crash_kws, n.text_norm) \o "'")
               ELSE ~rs_return[1].conflict_detected

\* Topic is Sports and the text holds a crash keyword: the physical-object
\* branch fires
C17_Witness ==
    /\ Returned
    /\ rs_call[1].meta_data = With("Meta_Topic", "Sports")
    /\ rs_call[1].text = "{66b4}{8dcc}"
    /\ rs_return[1] =
          Found("[CONFLICT] Polysemy: Image physical object vs Text economic '{66b4}{8dcc}'")


\* the state token of the entry is in Fact or Objects and one of its antonyms
\* is in the text
StateShown(i, n) ==
    /\ \/ Contains(n.img_fact_norm, state_conflicts[i][1])
       \/ Contains(n.img_objects_norm, state_conflicts[i][1])
    /\ \E j \in 1..Len(state_conflicts[i][2]) :
          Contains(n.text_norm, lower(state_conflicts[i][2][j]))

\* the State reason of the entry, with the first of its antonyms found
StateReason(i, n) ==
    "[CONFLICT] State/OCR: Image '" \o state_conflicts[i][1] \o "' vs Text '"
    \o FirstHitLower(state_conflicts[i][2], n.text_norm) \o "'"

\* C18, as claimed: whenever an entry's state token is in Fact or Objects and
\* one of its antonyms is in the text the result is a conflict, and its reason
\* is a State/Provenance one whenever no Temporal, Weather, Geospatial or
\* Quantity/Fact rule matched.
C18_StateAfterFact ==
    Returned =>
        LET n == CallN
        IN  (\E i \in 1..Len(state_conflicts) : StateShown(i, n)) =>
               /\ rs_return[1].conflict_detected
               /\ NothingBeforeManual => ReasonIn("State/OCR")

\* C18, amended: whenever an entry's state token is in Fact or Objects and one
\* of its antonyms is in the text the result is a conflict; when no Temporal,
\* Weather, Geospatial or Quantity/Fact rule matched, the reason is the Manual
\* Trigger one if the text holds a trigger keyword, and otherwise the
\* State/Provenance reason of the first entry, in declaration order, that has
\* its token shown and an antonym in the text.
C18_StateAfterManual ==
    Returned =>
        LET n   == CallN
            sat == {i \in 1..Len(state_conflicts) : StateShown(i, n)}
        IN  sat # {} =>
               /\ rs_return[1].conflict_detected
               /\ NothingBeforeManual =>
                     IF TextHas(trigger_keywords)
                     THEN ReasonIn("Manual Trigger")
                     ELSE rs_return[1].reason =
                             StateReason(CHOOSE i \in sat : \A j \in sat : i <= j, n)

\* Fact is Cracked, Objects is a broken cup and the text says "perfect": the
\* entries "broken" and "cracked" both match and the first declared is reported
C18_Witness ==
    /\ Returned
    /\ rs_call[1].text = "perfect"
    /\ rs_call[1].meta_data = With2("Meta_Fact", "Cracked", "Meta_Object", "broken cup")
    /\ rs_return[1] = Found("[CONFLICT] State/OCR: Image 'broken' vs Text 'perfect'")


\* the Fact attribute of the call holds one of the tokens
FactHas(tokens, n) == \E k \in tokens : Contains(n.img_fact_norm, k)

\* C19: when no Temporal, Weather or Geospatial rule matched, a Fact indicating
\* emptiness with a crowd keyword in the text is a conflict with the Fact
\* reason of the empty direction; otherwise a Fact indicating crowding with an
\* empty keyword in the text is a conflict with the Fact reason of the crowded
\* direction; no Fact reason is returned otherwise.
C19_FactPair ==
    Returned =>
        LET n == CallN
            empty   == FactHas({"empty", "{7a7a}", "no people", "{65e0}{4eba}", "deserted"}, n)
            crowded == FactHas({"crowded", "{62e5}{6324}", "{4eba}{591a}", "many people"}, n)
        IN  (\A c \in {"Temporal", "Weather", "Geolocation"} : ~Matches(c, n)) =>
               IF empty /\ TextHas(crowded_keywords)
               THEN rs_return[1] =
                       Found("[CONFLICT] Fact: Image '" \o n.img_fact \o "' (empty) vs Text '"
                             \o FirstHitLower(crowded_keywords, n.text_norm) \o "'")
               ELSE IF crowded /\ TextHas(empty_keywords)
               THEN rs_return[1] =
                       Found("[CONFLICT] Fact: Image '" \o n.img_fact
                             \o "' (crowded) vs Text '"
                             \o FirstHitLower(empty_keywords, n.text_norm) \o "'")
               ELSE ~ReasonIn("Fact")

\* Fact is Crowded and the text holds an empty keyword: the second direction
\* of the pair fires
C19_Witness ==
    /\ Returned
    /\ rs_call[1].meta_data = With("Meta_Fact", "Crowded")
    /\ rs_call[1].text = "deserted"
    /\ rs_return[1] = Found("[CONFLICT] Fact: Image 'Crowded' (crowded) vs Text 'deserted'")


\* the keyword occurs somewhere in the case-folded text of the call, at any
\* position, inside a longer word or not
Occurs(kw) ==
    LET t == lower(rs_call[1].text)
    IN  \E i \in 1..Len(t) : \E j \in i..Len(t) : SubSeq(t, i, j) = kw

\* C20: a keyword counts as present wherever it occurs in the case-folded
\* text, also inside a longer word: with Time = Day every text in which
\* "night" occurs gives the Temporal conflict on 'night' or on a night keyword
\* listed before it, and with an empty Fact and no earlier rule matched every
\* text in which "crowded" occurs gives the Fact conflict.
C20_SubstringMatch ==
    Returned =>
        /\ (TimeIs("day") /\ Occurs("night")) =>
              /\ rs_return[1].conflict_detected
              /\ ReasonIn("Temporal")
              /\ rs_return[1].reason =
                    "[CONFLICT] Temporal: Image shows '" \o CallN.img_time
                    \o "' (day) vs Text mentions '"
                    \o FirstHit(night_keywords, lower(rs_call[1].text)) \o "'"
        /\ (lower(strip(Get(rs_call[1].meta_data, "Meta_Fact", "Unknown"))) = "empty"
            /\ Occurs("crowded")) => rs_return[1].conflict_detected

\* Time is Day and the text is "a knight": the night keyword is found inside
\* the longer word
C20_Witness ==
    /\ Returned
    /\ rs_call[1].meta_data = With("Meta_Time", "Day")
    /\ rs_call[1].text = "a knight"
    /\ rs_return[1] =
          Found("[CONFLICT] Temporal: Image shows 'Day' (day) vs Text mentions 'night'")

-----------------------------------------------------------------------------
(* Relations between calls of the rule engine *)

UpperChar(c) ==
    IF \E i \in 1..26 : LowerCase[i] = c
    THEN UpperCase[CHOOSE i \in 1..26 : LowerCase[i] = c]
    ELSE c

\* s.upper()
RECURSIVE upper(_)
upper(s) ==
    IF s = "" THEN ""
    ELSE UpperChar(SubSeq(s, 1, 1)) \o upper(SubSeq(s, 2, Len(s)))

\* the category named by a reason, "" for the consistent message
CategoryOf(reason) ==
    IF \E c \in Categories : StartsWith(reason, "[CONFLICT] " \o c \o ":")
    THEN CHOOSE c \in Categories : StartsWith(reason, "[CONFLICT] " \o c \o ":")
    ELSE ""

\* the conflict flag and the category of a result
Finding(r) == <<r.conflict_detected, CategoryOf(r.reason)>>

\* the record with every value in upper case between a space and a tab
Recased(meta) == [k \in DOMAIN meta |-> " " \o upper(meta[k]) \o "\t"]

\* C21: for every attributes/text pair, the conflict flag and the category of
\* the finding are those returned for the text in upper case and in lower
\* case, and for the attribute values in upper case with surrounding
\* whitespace.
C21_CaseInsensitive ==
    Returned =>
        LET c == rs_call[1]
            f == Finding(rs_return[1])
        IN  /\ f = Finding(check_logic(c.image_path, upper(c.text), c.meta_data))
            /\ f = Finding(check_logic(c.image_path, lower(c.text), c.meta_data))
            /\ f = Finding(check_logic(c.image_path, c.text, Recased(c.meta_data)))

\* the text is in upper case, the Time attribute is capitalised, and the
\* Temporal conflict is found on the lower-case keyword
C21_Witness ==
    /\ Returned
    /\ rs_call[1].text = "KNIGHT"
    /\ Get(rs_call[1].meta_data, "Meta_Time", "Unknown") = "Day"
    /\ rs_return[1] = Found("[CONFLICT] Temporal: Image shows 'Day' (day) vs Text mentions 'night'")


\* image paths a call may be repeated with: the two of the input set, the
\* empty path, and a logic_* name in upper case in another directory
OtherPaths == ImagePaths \cup {"", "dataset/LOGIC_trap.JPG"}

WorkersReturned == program = "reasoner_workers" /\ Len(rs_return) > 0

\* C22: after any sequence of check_logic calls by interleaved workers on the
\* module-level reasoner, every keyword list and rule table of the instance is
\* as __init__ left it, two calls with the same arguments have returned the
\* same result, and each call has returned what the single first call of a
\* fresh module returns for its arguments.
C22_Stateless ==
    /\ program \in {"reasoner", "reasoner_workers"} => reasoner = LogicReasoner
    /\ WorkersReturned =>
          /\ \A i, j \in 1..Len(rs_return) :
                rs_call[i] = rs_call[j] => rs_return[i] = rs_return[j]
          /\ \A i \in 1..Len(rs_return) :
                rs_return[i] =
                   RuleChain(Normalise(vlm_captioning_mock(rs_call[i].image_path,
                                                           rs_call[i].meta_data),
                                       rs_call[i].text, rs_call[i].image_path))

\* two calls have returned, a conflict first and then the call with the
\* consistent result, while a worker is between the two steps of a third call
C22_Witness ==
    /\ program = "reasoner_workers"
    /\ Len(rs_return) = 2
    /\ rs_return[1].conflict_detected
    /\ rs_call[2].text = "hello"
    /\ rs_return[2] = NoFinding
    /\ \E w \in Workers : workers[w].pc = "captioned"

-----------------------------------------------------------------------------
(* Properties of the report records *)

\* one sample's scores fused alone: the channels that alarm, in the order Ch1,
\* Ch2, Ch3, the verdict and the risk
AlarmingOf(s1, s2_raw, s3) ==
    (IF s1 > 5000 THEN <<"Ch1">> ELSE <<>>)
    \o (IF s2_raw < 2200 THEN <<"Ch2">> ELSE <<>>)
    \o (IF s3 > 5000 THEN <<"Ch3">> ELSE <<>>)

ReasonOf(ch, s1, s2_raw, s3) ==
    CASE ch = "Ch1" -> "Ch1:Physical Tamper(" \o Fmt2(s1) \o ")"
      [] ch = "Ch2" -> "Ch2:Semantic Mismatch(" \o Fmt2(s2_raw) \o ")"
      [] ch = "Ch3" -> "Ch3:Logic Conflict(" \o Fmt2(s3) \o ")"

FusedAlone(s1, s2_raw, s3) ==
    LET a == AlarmingOf(s1, s2_raw, s3)
        risk(ch) == CASE ch = "Ch1" -> s1 [] ch = "Ch2" -> 9000 [] ch = "Ch3" -> s3
    IN  [Pred_Label |-> IF a = <<>> THEN 0 ELSE 1,
         Risk_Score |-> MaxOf({0} \cup {risk(a[i]) : i \in 1..Len(a)}),
         reasons    |-> [i \in 1..Len(a) |-> ReasonOf(a[i], s1, s2_raw, s3)]]

\* C23: the verdict, the risk score and the reasons of each sample of
\* run_full_inference are those of its three scores fused alone, whatever
\* samples were processed before it.
C23_FusionIsPure ==
    Processed =>
        LET alone == FusedAlone(locals.s1, locals.s2_raw, locals.s3)
        IN  /\ Last.Pred_Label = alone.Pred_Label
            /\ Last.Risk_Score = alone.Risk_Score
            /\ locals.reasons = alone.reasons
            /\ locals.is_fake = (alone.Pred_Label = 1)

\* the second sample alarms on no channel after a first sample on which all
\* three alarmed: its record is the consistent one with no risk
C23_Witness ==
    /\ Processed
    /\ Len(results) = 2
    /\ results[1].Pred_Label = 1
    /\ results[1].Risk_Score = 10000
    /\ locals.s1 = 0 /\ locals.s2_raw = 9000 /\ locals.s3 = 0
    /\ Last.Pred_Label = 0 /\ Last.Risk_Score = 0 /\ Last.Reason = "Consistent"

\* C25: the list of reasons holds one entry for each alarming channel, in the
\* order Ch1, Ch2, Ch3, and none for a channel that does not alarm; the Reason
\* of the record is the entries joined, and is Consistent if and only if no
\* channel alarms.
C25_ReasonsList ==
    Processed =>
        LET a == AlarmingOf(locals.s1, locals.s2_raw, locals.s3)
        IN  /\ Len(locals.reasons) = Len(a)
            /\ \A i \in 1..Len(a) : StartsWith(locals.reasons[i], a[i] \o ":")
            /\ (Last.Reason = "Consistent") <=> (a = <<>>)
            /\ a # <<>> => Last.Reason = JoinReasons(locals.reasons)

\* the three channels alarm and the three entries are in the order Ch1, Ch2, Ch3
C25_Witness ==
    /\ Processed
    /\ locals.reasons = <<"Ch1:Physical Tamper(0.50)", "Ch2:Semantic Mismatch(0.21)",
                          "Ch3:Logic Conflict(1.00)">>
    /\ Last.Reason = "Ch1:Physical Tamper(0.50) | Ch2:Semantic Mismatch(0.21) | Ch3:Logic Conflict(1.00)"

\* C28: in every record of run_full_inference, Pred_Label is 1 if and only if
\* Risk_Score is above 0, if and only if Reason is not Consistent; and a record
\* with Pred_Label 1 has a Risk_Score strictly above 0.5.
C28_FieldsAgree ==
    program = "run_system" =>
        \A i \in 1..Len(results) :
           LET r == results[i]
           IN  /\ (r.Pred_Label = 1) <=> (r.Risk_Score > 0)
               /\ (r.Pred_Label = 1) <=> (r.Reason # "Consistent")
               /\ r.Pred_Label = 1 => r.Risk_Score > 5000
               /\ r.Pred_Label \in {0, 1}

\* only Ch1 alarms, on the smallest score above its threshold
C28_Witness ==
    /\ Processed
    /\ locals.s1 = 5004 /\ locals.s2_raw = 2200 /\ locals.s3 = 5000
    /\ Last.Pred_Label = 1
    /\ Last.Risk_Score = 5004
    /\ Last.Reason = "Ch1:Physical Tamper(0.50)"


\* 1 - (1-P1)(1-P2)(1-P3), each product truncated to four decimals
PFinal(p1, p2, p3) ==
    ONE - ((((ONE - p1) * (ONE - p2)) \div ONE) * (ONE - p3)) \div ONE

\* C26: every record of run_full_inference reports, beside the verdict, the
\* score P_final = 1 - (1-P1)(1-P2)(1-P3) over the sample's three risks (P2 the
\* mismatch risk 1 - s2_raw), and the verdict is the OR of the alarms whatever
\* P_final is.
C26_ReportsPFinal ==
    Processed =>
        /\ "P_final" \in DOMAIN Last
        /\ Last.P_final = PFinal(locals.s1, ONE - locals.s2_raw, locals.s3)
        /\ (Last.Pred_Label = 1) <=> (Alarm1 \/ Alarm2 \/ Alarm3)

-----------------------------------------------------------------------------
(* Properties of the Ch3 score provider *)

\* get_logic_score has been called; locals are those of the last call
Scored == program = "interface" /\ idx > 0

\* the last call found no model or its inference block raised
ProviderUnavailable == model = None \/ locals.inf.raises

\* C27: whatever the model answers, and when the model is not loaded or the
\* inference raises, get_logic_score returns a value in [0, 1]; when the model
\* is not loaded or the inference raises the value is 0.5, which is not above
\* the Ch3 threshold, so run_full_inference raises no Ch3 alarm on it.
C27_ProviderContract ==
    /\ Scored =>
          /\ locals.ret \in 0..10000
          /\ ProviderUnavailable => locals.ret = 5000
          /\ ProviderUnavailable => ~(locals.ret > TH_CH3)
    /\ (Processed /\ locals.ch3 \in {"not loaded", "raised"}) =>
          locals.s3 = 5000 /\ ~Alarmed("Ch3")

\* the model answers with a number above 10 and the score is 0.0
C27_Witness ==
    /\ Scored
    /\ ~locals.inf.raises
    /\ model # None
    /\ locals.inf.answer = "15"
    /\ locals.ret = 0


\* C29: after any sequence of calls in which each load step may succeed or
\* fail, model is set only if tokenizer is set too; a call whose load did not
\* complete leaves model None, so that the next call loads again; and a call
\* that finds the load complete changes neither global.
C29_LazyInitConsistent ==
    program = "interface" =>
        /\ model # None => tokenizer # None
        /\ (Scored /\ locals.before.model = None /\ locals.load # "ok") => model = None
        /\ (Scored /\ locals.before.model # None /\ locals.before.tokenizer # None) =>
              model = locals.before.model /\ tokenizer = locals.before.tokenizer


\* the workers that have called get_logic_score
Callers == {w \in Workers : workers[w].frame # NoFrame}

\* C30: when several workers call get_logic_score before the model is loaded,
\* at most one of them performs the load of the model, and no worker passes a
\* tokenizer that is not yet set to the model.
C30_LoadedOnce ==
    program = "interface_workers" =>
        /\ Cardinality({w \in Callers : workers[w].frame.loads > 0}) <= 1
        /\ \A w \in Callers : workers[w].frame.tokenizer_used # None

=============================================================================
